---------------------------- MODULE Spec2Model ----------------------------
(***************************************************************************)
(* SmartBar (package smart_tqdm): the progress bar of smart_bar.py, its    *)
(* emoji policies (emoji_selectors.py), the terminal renderer's output     *)
(* (display.py) and the metric tracker the bar records into.               *)
(*                                                                         *)
(* Metric values are counted in thousandths: 0.7 is 700, the new-best      *)
(* tolerance 0.001 is 1 and the trend threshold 0.005 is 5.  The values    *)
(* the model draws keep clear of the tolerances, so no comparison falls    *)
(* on a boundary where binary floating point could round either way.  A    *)
(* progress test n / total >= p/q is the integer test q * n >= p * total.  *)
(***************************************************************************)
EXTENDS Integers, Sequences, FiniteSets, TLC

VARIABLES
    total,           \* SmartBar.total
    n,               \* SmartBar.n
    emoji,           \* SmartBar.emoji
    metrics,         \* SmartBar.metrics: mapping name -> value as passed in
    emoji_selector,  \* SmartBar.emoji_selector
    show_emoji,      \* SmartBar.show_emoji
    show_metrics,    \* SmartBar.show_metrics
    metric_history,  \* MetricTracker: the bounded window of snapshots
    best_accuracy,   \* MetricTracker: running best of 'acc'
    best_loss,       \* MetricTracker: running best of 'loss'
    stdout,          \* the terminal: the bar line on it, the line breaks of finish()
    yielded,         \* the values __next__ has returned, in order
    raised,          \* the exception the last call ended with, or NoError
    exhausted,       \* __next__ has signalled StopIteration
    closed,          \* close() has been called
    call,            \* a direct call of an emoji policy: its arguments and result
    script,          \* a scripted run: the 'acc' value to record at each step
    phase,           \* a scripted run: what the caller does next
    tracker,         \* a MetricsTracker (metrics.py): its fields
    passed,          \* the mappings handed to MetricsTracker.update, in order
    package,         \* the package the SmartBar is taken from
    fault,           \* how the terminal answers a write
    renderer,        \* a TerminalRenderer driven directly: its fields
    rendered,        \* its last render: the arguments, the layout, the outcome
    last_write,      \* what it wrote last: a line break, or text after one
    smart,           \* a SmartTQDM (smart_tqdm.py): its fields, its tqdm bar
    threads,         \* the animation threads it has started: where each is
    caller           \* the thread that calls it: the call in progress

vars == <<total, n, emoji, metrics, emoji_selector, show_emoji, show_metrics,
          metric_history, best_accuracy, best_loss, stdout, yielded, raised,
          exhausted, closed, call, script, phase, tracker, passed, package,
          fault, renderer, rendered, last_write, smart, threads, caller>>

barVars == <<total, n, emoji, metrics, emoji_selector, show_emoji, show_metrics,
             metric_history, best_accuracy, best_loss, stdout, yielded, raised,
             exhausted, closed>>

mtVars == <<tracker, passed>>

smartVars == <<smart, threads, caller>>

envVars == <<package, fault, renderer, rendered, last_write, smartVars>>

---------------------------------------------------------------------------
(* Bounds of the model *)

MaxTotal == 2        \* bars of total 1..MaxTotal
MaxRecords == 3      \* set_metrics calls per bar
MaxFinish == 2       \* line breaks written per bar
MaxSelTotal == 5     \* totals of the direct policy calls
MaxFillTotal == 22   \* totals of the bars whose segments are computed
MaxBudget == 22      \* their budgets, from MIN_BAR_WIDTH up

---------------------------------------------------------------------------
(* Tokens: the glyphs of config.py's EmojiConfig, by name *)

NEW_BEST == "partying_face"
COMPLETE == "trophy"
IMPROVING_FAST == "rocket"
IMPROVING == "fire"
IMPROVING_STEADY == "zap"
IMPROVING_TREND == "chart_up"
LOSS_IMPROVING == "chart_down"
STABLE_GOOD == "zap"
STABLE_EARLY == "target"
STABLE_EXCELLENT == "trophy"
STABLE_AVERAGE == "target"
STABLE_LOW == "bar_chart"
DECLINING == "sweat_smile"
DECLINING_DECENT == "neutral_face"
DECLINING_LOW == "anxious_face"
STARTING == "magnifier"
GETTING_THERE == "target"
HALFWAY == "fire"
GOOD_PROGRESS == "zap"
ALMOST_DONE == "rocket"
HEAD_EMOJI == "point_right"

Tokens == {NEW_BEST, COMPLETE, IMPROVING_FAST, IMPROVING, IMPROVING_STEADY,
           IMPROVING_TREND, LOSS_IMPROVING, STABLE_LOW, STABLE_EARLY,
           DECLINING, DECLINING_DECENT, DECLINING_LOW, STARTING}

---------------------------------------------------------------------------
(* Metric values and Python's float() *)

Num(v) == [t |-> "num", v |-> v]     \* an int or float
Str(v) == [t |-> "str", v |-> v]     \* the text of a number, f"{x:.3f}"
NotANumber == [t |-> "text", v |-> 0] \* a string float() cannot parse

ValueError == "ValueError"
KeyError == "KeyError"
StopIteration == "StopIteration"
InvalidMetricValue == "InvalidMetricValue"
BarAlreadyClosed == "BarAlreadyClosed"
NoError == "none"

\* float(x): the number itself, the number a numeric text spells, or ValueError
CanFloat(x) == x.t \in {"num", "str"}
Float(x) == x.v

NoMetrics == [k \in {} |-> Num(0)]
Has(m, k) == k \in DOMAIN m

\* float('inf'), the default of best_loss: above every loss of the model
INF == 1000000

ACCURACY_THRESHOLD == 5
LOSS_THRESHOLD == 5
DEFAULT_HISTORY_SIZE == 5

---------------------------------------------------------------------------
(* emoji_selectors.py: the emoji policies.  A policy returns a token, or    *)
(* the name of the exception it raises.                                     *)

ZeroDivisionError == "ZeroDivisionError"

\* lines 42-54: the progress-based fallback of the default policy
progress_fallback(nn, tot) ==
    IF nn >= tot THEN COMPLETE
    ELSE IF 5 * nn >= 4 * tot THEN ALMOST_DONE
    ELSE IF 5 * nn >= 3 * tot THEN GOOD_PROGRESS
    ELSE IF 5 * nn >= 2 * tot THEN HALFWAY
    ELSE IF 5 * nn >= tot THEN GETTING_THERE
    ELSE STARTING

\* variant without the check for a decline
default_trend_site_no_decline(at, lt) ==
    IF at = 1 \/ lt = 1 THEN "improving"
    ELSE IF at = 0 /\ lt = 0 THEN "stable"
    ELSE "fallback"

\* lines 25-42: the check of the default policy that returns, or the
\* fallback when none does

default_trend_site(at, lt) ==
    IF at = 1 \/ lt = 1 THEN "improving"
    ELSE IF at = 0 /\ lt = 0 THEN "stable"
    ELSE IF at = -1 \/ lt = -1 THEN "declining"
    ELSE "fallback"

\* lines 25-54: the default policy once the new-best check has not returned
default_trend_branch(nn, tot, at, lt) ==
    IF default_trend_site(at, lt) = "improving"
    THEN (IF at = 1 THEN IMPROVING_FAST ELSE IMPROVING)
    ELSE IF default_trend_site(at, lt) = "stable"
         THEN (IF 2 * nn > tot THEN STABLE_GOOD ELSE STABLE_EARLY)
    ELSE IF default_trend_site(at, lt) = "declining" THEN DECLINING
    ELSE progress_fallback(nn, tot)

\* lines 71-104 and 131-164: the check of an accuracy or loss policy that
\* returns, by the trend of its metric, or the fallback when none does
metric_trend_site(trend) ==
    IF trend = 1 THEN "improving"
    ELSE IF trend = 0 THEN "stable"
    ELSE IF trend = -1 THEN "declining"
    ELSE "fallback"

\* EmojiSelector.intelligent_default_selector
intelligent_default_selector(nn, tot, m, ba, bl, at, lt) ==
    IF tot = 0 THEN ZeroDivisionError
    ELSE IF Has(m, "acc") /\ ~CanFloat(m["acc"]) THEN ValueError
    ELSE IF Has(m, "acc") /\ Float(m["acc"]) >= ba - 1 THEN NEW_BEST
    ELSE default_trend_branch(nn, tot, at, lt)

\* accuracy_based_selector, lines 65-114: 'acc' is in the metrics
accuracy_branch(acc, ba, at) ==
    IF ~CanFloat(acc) THEN ValueError
    ELSE LET accuracy == Float(acc) IN
    IF accuracy >= ba - 1 THEN NEW_BEST
    ELSE IF metric_trend_site(at) = "improving" THEN
        (IF accuracy > 950 THEN IMPROVING_FAST
         ELSE IF accuracy > 900 THEN IMPROVING
         ELSE IF accuracy > 800 THEN IMPROVING_STEADY
         ELSE IMPROVING_TREND)
    ELSE IF metric_trend_site(at) = "stable" THEN
        (IF accuracy > 950 THEN STABLE_EXCELLENT
         ELSE IF accuracy > 900 THEN IMPROVING
         ELSE IF accuracy > 800 THEN STABLE_GOOD
         ELSE IF accuracy > 700 THEN STABLE_AVERAGE
         ELSE STABLE_LOW)
    ELSE IF metric_trend_site(at) = "declining" THEN
        (IF accuracy > 900 THEN DECLINING
         ELSE IF accuracy > 800 THEN DECLINING_DECENT
         ELSE DECLINING_LOW)
    ELSE IF accuracy > 950 THEN NEW_BEST
    ELSE IF accuracy > 900 THEN IMPROVING
    ELSE IF accuracy > 800 THEN STABLE_GOOD
    ELSE IF accuracy > 700 THEN STABLE_AVERAGE
    ELSE DECLINING

\* variant that reads metrics['acc'] without asking whether it is there
accuracy_based_selector_unguarded(nn, tot, m, ba, bl, at, lt) ==
    IF ~Has(m, "acc") THEN KeyError ELSE accuracy_branch(m["acc"], ba, at)

accuracy_based_selector(nn, tot, m, ba, bl, at, lt) ==
    IF ~Has(m, "acc") THEN STABLE_EARLY ELSE accuracy_branch(m["acc"], ba, at)

\* loss_based_selector, lines 125-174: 'loss' is in the metrics
loss_branch(lossv, bl, lt) ==
    IF ~CanFloat(lossv) THEN ValueError
    ELSE LET loss == Float(lossv) IN
    IF loss <= bl + 1 THEN NEW_BEST
    ELSE IF metric_trend_site(lt) = "improving" THEN
        (IF loss < 100 THEN IMPROVING_FAST
         ELSE IF loss < 300 THEN IMPROVING
         ELSE IF loss < 500 THEN IMPROVING_STEADY
         ELSE LOSS_IMPROVING)
    ELSE IF metric_trend_site(lt) = "stable" THEN
        (IF loss < 100 THEN STABLE_EXCELLENT
         ELSE IF loss < 300 THEN IMPROVING
         ELSE IF loss < 500 THEN STABLE_GOOD
         ELSE IF loss < 1000 THEN STABLE_AVERAGE
         ELSE STABLE_LOW)
    ELSE IF metric_trend_site(lt) = "declining" THEN
        (IF loss < 500 THEN DECLINING
         ELSE IF loss < 1000 THEN DECLINING_DECENT
         ELSE DECLINING_LOW)
    ELSE IF loss < 100 THEN NEW_BEST
    ELSE IF loss < 300 THEN IMPROVING
    ELSE IF loss < 500 THEN STABLE_GOOD
    ELSE IF loss < 1000 THEN STABLE_AVERAGE
    ELSE DECLINING

loss_based_selector(nn, tot, m, ba, bl, at, lt) ==
    IF ~Has(m, "loss") THEN STABLE_EARLY ELSE loss_branch(m["loss"], bl, lt)

\* the selectors a bar can be given; NoSelector is Python's None
NoSelector == "None"
DEFAULT_POLICY == "intelligent_default_selector"
ACCURACY_POLICY == "accuracy_based_selector"
LOSS_POLICY == "loss_based_selector"
Selectors == {ACCURACY_POLICY, LOSS_POLICY}
Policies == {DEFAULT_POLICY, ACCURACY_POLICY, LOSS_POLICY}

\* calling a policy by name
ApplyPolicy(p, nn, tot, m, ba, bl, at, lt) ==
    IF p = DEFAULT_POLICY THEN intelligent_default_selector(nn, tot, m, ba, bl, at, lt)
    ELSE IF p = ACCURACY_POLICY THEN accuracy_based_selector(nn, tot, m, ba, bl, at, lt)
    ELSE loss_based_selector(nn, tot, m, ba, bl, at, lt)

---------------------------------------------------------------------------
(* MetricTracker (metrics.py, imported by smart_bar.py line 9): the class   *)
(* is not among the sources; it is modelled from the specification's        *)
(* MetricHistory, sections 3 and 4.1.                                       *)

\* every value of the mapping can be coerced to a float
Coercible(m) == \A k \in DOMAIN m : CanFloat(m[k])

\* a snapshot: the values as floats, tagged with the iteration index
Snapshot(nn, m) == [n |-> nn, values |-> [k \in DOMAIN m |-> Float(m[k])]]

\* append to the bounded window, evicting the oldest entry of a full one
Push(h, s) ==
    IF Len(h) >= DEFAULT_HISTORY_SIZE THEN Append(Tail(h), s) ELSE Append(h, s)

\* running best: maximum for 'acc', minimum for 'loss'
UpdateBestAccuracy(ba, m) ==
    IF Has(m, "acc") /\ Float(m["acc"]) > ba THEN Float(m["acc"]) ELSE ba

UpdateBestLoss(bl, m) ==
    IF Has(m, "loss") /\ Float(m["loss"]) < bl THEN Float(m["loss"]) ELSE bl

\* the values of metric k in the snapshots that contain it, oldest first
Series(h, k) ==
    LET with == SelectSeq(h, LAMBDA s : k \in DOMAIN s.values)
    IN  [i \in 1..Len(with) |-> with[i].values[k]]

\* two-point trend over the last 3 values; 0 while there are fewer than 3
Trend(h, k, minimize, threshold) ==
    LET s == Series(h, k) IN
    IF Len(s) < 3 THEN 0
    ELSE LET first == s[Len(s) - 2]
             last == s[Len(s)]
         IN  IF minimize
             THEN (IF last < first - threshold THEN 1
                   ELSE IF last > first + threshold THEN -1 ELSE 0)
             ELSE (IF last > first + threshold THEN 1
                   ELSE IF last < first - threshold THEN -1 ELSE 0)

\* MetricTracker.get_trend_data()
get_trend_data ==
    [metric_history |-> metric_history,
     best_accuracy |-> best_accuracy,
     best_loss |-> best_loss,
     accuracy_trend |-> Trend(metric_history, "acc", FALSE, ACCURACY_THRESHOLD),
     loss_trend |-> Trend(metric_history, "loss", TRUE, LOSS_THRESHOLD)]

\* the two packages that carry a SmartBar and a ProgressBarConfig
Packages == {"smart_tqdm", "tqdmpp"}

TQDMPP_LOSS_THRESHOLD == 10

\* ProgressBarConfig.ACCURACY_THRESHOLD of a package
accuracy_threshold(pkg) == ACCURACY_THRESHOLD

\* variant in which tqdmpp configures the loss threshold of smart_tqdm
loss_threshold_uniform(pkg) == LOSS_THRESHOLD

\* ProgressBarConfig.LOSS_THRESHOLD of a package

loss_threshold(pkg) ==
    IF pkg = "tqdmpp" THEN TQDMPP_LOSS_THRESHOLD ELSE LOSS_THRESHOLD

\* the trends the tracker of a package reports with its configured thresholds
trend_data(pkg) ==
    [accuracy_trend |->
        Trend(metric_history, "acc", FALSE, accuracy_threshold(pkg)),
     loss_trend |->
        Trend(metric_history, "loss", TRUE, loss_threshold(pkg))]

\* MetricTracker.update_metrics(n, start_time, **kwargs)
update_metrics(nn, m) ==
    /\ metric_history' = Push(metric_history, Snapshot(nn, m))
    /\ best_accuracy' = UpdateBestAccuracy(best_accuracy, m)
    /\ best_loss' = UpdateBestLoss(best_loss, m)

---------------------------------------------------------------------------
(* metrics.py: MetricsTracker and PerformanceAnalyzer, the tracker and the  *)
(* analyzer of SmartTQDM.  A tracker is the record of its fields; the       *)
(* dictionaries are functions whose domain is the set of keys present.      *)

PyNone == [t |-> "None"]
EmptyDict == [k \in {} |-> 0]

DEFAULT_MAX_HISTORY == 100
TREND_WINDOW == 5

\* isinstance(value, (int, float)): a text, numeric or not, is not a number
IsNumber(x) == x.t = "num"

\* variant of the append that drops the new value when the window is full
deque_append_keep_old(d, v, maxlen) ==
    IF Len(d) >= maxlen THEN d ELSE Append(d, v)

\* deque(maxlen=maxlen).append(v), maxlen >= 1: a full deque drops its oldest

deque_append(d, v, maxlen) ==
    IF Len(d) >= maxlen THEN Append(Tail(d), v) ELSE Append(d, v)

\* MetricsTracker.__init__
MetricsTrackerNew(max_history) ==
    [max_history |-> max_history,
     history |-> EmptyDict,
     best_values |-> EmptyDict,
     worst_values |-> EmptyDict]

\* MetricsTracker.update: each number of the mapping is appended to the
\* history of its key, and becomes the best value when above it, the worst
\* value when below it; the other values are passed over
MetricsTracker_update(t, m) ==
    LET keys == {k \in DOMAIN m : IsNumber(m[k])}
        old(k) == IF k \in DOMAIN t.history THEN t.history[k] ELSE <<>>
    IN  [t EXCEPT
          !.history =
              [k \in DOMAIN t.history \cup keys |->
                  IF k \in keys
                  THEN deque_append(old(k), m[k].v, t.max_history)
                  ELSE t.history[k]],
          !.best_values =
              [k \in DOMAIN t.best_values \cup keys |->
                  IF k \notin keys THEN t.best_values[k]
                  ELSE IF k \notin DOMAIN t.best_values
                          \/ m[k].v > t.best_values[k]
                       THEN m[k].v
                       ELSE t.best_values[k]],
          !.worst_values =
              [k \in DOMAIN t.worst_values \cup keys |->
                  IF k \notin keys THEN t.worst_values[k]
                  ELSE IF k \notin DOMAIN t.worst_values
                          \/ m[k].v < t.worst_values[k]
                       THEN m[k].v
                       ELSE t.worst_values[k]]]

\* MetricsTracker.get_latest
get_latest(t, metric) ==
    IF metric \in DOMAIN t.history /\ Len(t.history[metric]) > 0
    THEN Num(t.history[metric][Len(t.history[metric])])
    ELSE PyNone

\* list(history)[-k:], 1 <= k
LastValues(s, k) ==
    IF Len(s) <= k THEN s ELSE SubSeq(s, Len(s) - k + 1, Len(s))

RECURSIVE CenteredSum(_, _)
\* the sum over the positions x = 0 .. i-1 of (2x - (L-1)) * values[x+1]
CenteredSum(values, i) ==
    IF i = 0 THEN 0
    ELSE CenteredSum(values, i - 1)
         + (2 * (i - 1) - (Len(values) - 1)) * values[i]

\* np.polyfit(arange(L), values, 1)[0], L >= 2: the least squares slope, the
\* exact fraction num / den with den > 0
polyfit_slope(values) ==
    [t |-> "float",
     num |-> 6 * CenteredSum(values, Len(values)),
     den |-> Len(values) * (Len(values) * Len(values) - 1)]

\* variant of get_trend that fits a slope as soon as two values are there
get_trend_from_two(t, metric, window) ==
    IF metric \notin DOMAIN t.history \/ Len(t.history[metric]) < 2
    THEN PyNone
    ELSE polyfit_slope(LastValues(t.history[metric], window))

\* MetricsTracker.get_trend: None until the window is full, then the slope

get_trend(t, metric, window) ==
    IF metric \notin DOMAIN t.history \/ Len(t.history[metric]) < window
    THEN PyNone
    ELSE LET values == LastValues(t.history[metric], window) IN
         IF Len(values) < 2 THEN PyNone ELSE polyfit_slope(values)

\* PerformanceStatus
PS_IMPROVING == "improving"
PS_PLATEAU == "plateau"
PS_UNSTABLE == "unstable"
PS_NEW_BEST == "new_best"
PS_SLOW == "slow"
PS_EXCELLENT == "excellent"
PS_WARNING == "warning"

\* PerformanceAnalyzer.__init__: the thresholds.  The slope thresholds are
\* counted in ten-thousandths (0.001 is 10, 0.0001 is 1), the volatility
\* threshold 0.01 and the accuracy mark 0.95 in thousandths
improvement_threshold == 10
plateau_threshold == 1
volatility_threshold == 10
window_size == 5
EXCELLENT_ACCURACY == 950

\* 'acc' in metric.lower(), 'loss' in metric.lower(), on the names of the model
IsAccuracyName(metric) == metric \in {"acc", "accuracy", "val_acc"}
IsLossName(metric) == metric \in {"loss", "val_loss"}

\* trend > p, trend < p for a slope in thousandths and p in ten-thousandths
SlopeAbove(sl, p) == 10 * sl.num > p * sl.den
SlopeBelow(sl, p) == 10 * sl.num < p * sl.den
SlopeAbsBelow(sl, p) == SlopeBelow(sl, p) /\ SlopeAbove(sl, -p)

RECURSIVE SeqSum(_, _)
SeqSum(values, i) == IF i = 0 THEN 0 ELSE SeqSum(values, i - 1) + values[i]

RECURSIVE SeqSumSq(_, _)
SeqSumSq(values, i) ==
    IF i = 0 THEN 0 ELSE SeqSumSq(values, i - 1) + values[i] * values[i]

\* np.std(values) > volatility_threshold: the population deviation, squared
Volatile(values) ==
    LET L == Len(values) IN
    L * SeqSumSq(values, L) - SeqSum(values, L) * SeqSum(values, L)
        > volatility_threshold * volatility_threshold * L * L

SeqMax(values) ==
    CHOOSE v \in {values[i] : i \in 1..Len(values)} :
        \A i \in 1..Len(values) : values[i] <= v

SeqMin(values) ==
    CHOOSE v \in {values[i] : i \in 1..Len(values)} :
        \A i \in 1..Len(values) : values[i] >= v

\* PerformanceAnalyzer._calculate_trend
calculate_trend(values) ==
    IF Len(values) < 2 THEN [t |-> "float", num |-> 0, den |-> 1]
    ELSE polyfit_slope(values)

\* PerformanceAnalyzer._analyze_metric
analyze_metric(metric, current_value, hist) ==
    LET values == LastValues(hist, window_size)
        trend == calculate_trend(values)
        before == SubSeq(values, 1, Len(values) - 1)
        rest == IF Volatile(values) THEN PS_UNSTABLE ELSE PS_IMPROVING
    IN  IF Len(values) < 2 THEN PS_IMPROVING
        ELSE IF IsAccuracyName(metric)
        THEN IF current_value > SeqMax(before) THEN PS_NEW_BEST
             ELSE IF current_value > EXCELLENT_ACCURACY THEN PS_EXCELLENT
             ELSE IF SlopeAbove(trend, 2 * improvement_threshold)
                  THEN PS_IMPROVING
             ELSE IF SlopeAbsBelow(trend, plateau_threshold) THEN PS_PLATEAU
             ELSE IF SlopeBelow(trend, -improvement_threshold) THEN PS_SLOW
             ELSE rest
        ELSE IF IsLossName(metric)
        THEN IF current_value < SeqMin(before) THEN PS_NEW_BEST
             ELSE IF SlopeBelow(trend, -improvement_threshold)
                  THEN PS_IMPROVING
             ELSE IF SlopeAbove(trend, improvement_threshold) THEN PS_SLOW
             ELSE IF SlopeAbsBelow(trend, plateau_threshold) THEN PS_PLATEAU
             ELSE rest
        ELSE IF current_value > SeqMax(before) THEN PS_NEW_BEST
             ELSE IF SlopeAbove(trend, improvement_threshold)
                  THEN PS_IMPROVING
             ELSE IF SlopeAbsBelow(trend, plateau_threshold) THEN PS_PLATEAU
             ELSE IF SlopeBelow(trend, -improvement_threshold) THEN PS_SLOW
             ELSE rest

\* PerformanceAnalyzer.analyze, the body of its loop: the status of one
\* numeric metric
metric_status(metric, current_value, history) ==
    IF metric \notin DOMAIN history \/ Len(history[metric]) < window_size
    THEN PS_IMPROVING
    ELSE analyze_metric(metric, current_value, history[metric])

\* PerformanceAnalyzer._prioritize_status
prioritize_status(statuses) ==
    IF PS_NEW_BEST \in statuses THEN PS_NEW_BEST
    ELSE IF PS_WARNING \in statuses THEN PS_WARNING
    ELSE IF PS_UNSTABLE \in statuses THEN PS_UNSTABLE
    ELSE IF PS_SLOW \in statuses THEN PS_SLOW
    ELSE IF PS_PLATEAU \in statuses THEN PS_PLATEAU
    ELSE IF PS_IMPROVING \in statuses THEN PS_IMPROVING
    ELSE IF PS_EXCELLENT \in statuses THEN PS_EXCELLENT
    ELSE PS_IMPROVING

\* PerformanceAnalyzer.analyze
analyze(current_metrics, history) ==
    IF DOMAIN current_metrics = {} \/ DOMAIN history = {}
    THEN PS_IMPROVING
    ELSE prioritize_status(
            {metric_status(k, current_metrics[k].v, history) :
                k \in {j \in DOMAIN current_metrics :
                          IsNumber(current_metrics[j])}})

---------------------------------------------------------------------------
(* display.py: what TerminalRenderer puts on the terminal *)

\* render_progress_bar: the line shows the token when show_emoji and one is
\* set, the count n/total, and the metrics when show_metrics
render_progress_bar(nn, tot, e, m, se, sm) ==
    [n |-> nn,
     total |-> tot,
     emoji |-> IF se /\ e /= "" THEN e ELSE "",
     metrics |-> IF sm THEN m ELSE NoMetrics]

\* print_bar: the line replaces the one on the terminal
print_bar(out, bar_str) == [out EXCEPT !.line = <<bar_str>>]

\* variant of finish that writes nothing
finish_silent(out) == out

\* finish: print() writes a line break

finish(out) == [out EXCEPT !.newlines = @ + 1]

(* The layout of the line, on lengths: a text is the number of its          *)
(* characters, len().  The colours of the filled cells are computed with    *)
(* exact arithmetic, which is what the floating point code computes while   *)
(* the bar is narrower than 52 cells.                                       *)

MIN_BAR_WIDTH == 10
MIN_TERM_WIDTH == 40
FALLBACK_COLUMNS == 80
DESC_MAX == 20
WARNING_BREAKS == 2

\* TerminalRenderer.__init__
TerminalRendererNew == [last_print_len |-> 0, warned_narrow |-> FALSE]

\* get_terminal_width: the columns the terminal answers, 80 when the query
\* raises
get_terminal_width(size) == IF size.ok THEN size.columns ELSE FALLBACK_COLUMNS

RECURSIVE Digits(_)
\* len(str(x)) of a natural number
Digits(x) == IF x < 10 THEN 1 ELSE 1 + Digits(x \div 10)

\* len(f"{x:.1f}") of a number that rounds to the given count of tenths
FixedLen(tenths) == Digits(tenths \div 10) + 2

\* (n / total) * 100 in tenths, rounded
PercentTenths(nn, tot) == (2000 * nn + tot) \div (2 * tot)

\* len(f" {n}/{total} {((n / total) * 100):.1f}%")
progress_str_len(nn, tot) ==
    1 + Digits(nn) + 1 + Digits(tot) + 1 + FixedLen(PercentTenths(nn, tot)) + 1

\* len(f" [ {elapsed:.1f}s]"), the elapsed time in tenths of a second
time_str_len(elapsed) == 3 + FixedLen(elapsed) + 2

\* len(k) of the metric names
KeyLen(k) == IF k = "acc" THEN 3 ELSE 4

\* len(f"{v}"): a float prints its shortest decimals, at least one; a
\* numeric text f"{x:.3f}" has three; the text that is no number is "n/a"
ValueLen(x) ==
    IF x.t = "num"
    THEN Digits(x.v \div 1000) + 1
         + (IF x.v % 100 = 0 THEN 1 ELSE IF x.v % 10 = 0 THEN 2 ELSE 3)
    ELSE IF x.t = "str" THEN Digits(x.v \div 1000) + 4
    ELSE 3

RECURSIVE ItemsLen(_, _)
\* the lengths of the items f"{k}:{v}" of the keys ks, summed
ItemsLen(m, ks) ==
    IF ks = {} THEN 0
    ELSE LET k == CHOOSE j \in ks : TRUE IN
         KeyLen(k) + 1 + ValueLen(m[k]) + ItemsLen(m, ks \ {k})

\* len(metrics_str): " [" + " ".join(items) + "]", or nothing
metrics_str_len(m, sm) ==
    IF sm /\ DOMAIN m /= {}
    THEN 2 + ItemsLen(m, DOMAIN m) + (Cardinality(DOMAIN m) - 1) + 1
    ELSE 0

\* variant of the budget that reserves nothing for the brackets and padding
total_needed_unpadded(desc_len, emoji_len, progress_len, time_len, metrics_len) ==
    desc_len + emoji_len + progress_len + time_len + metrics_len

\* calculate_layout lines 76-78: the space the other elements need

total_needed(desc_len, emoji_len, progress_len, time_len, metrics_len) ==
    desc_len + emoji_len + 2 + 2 + 2 + progress_len + time_len + metrics_len
        + 10

\* variant that leaves the budget as computed
bar_budget_unclamped(raw) == raw

\* calculate_layout lines 83-87: the budget is never below the minimum

bar_budget(raw) == IF raw < MIN_BAR_WIDTH THEN MIN_BAR_WIDTH ELSE raw

\* variant that warns on every narrow call
warns_every_time(raw, warned) == raw < MIN_BAR_WIDTH

\* calculate_layout lines 83-84: the warning is due

should_warn(raw, warned) == raw < MIN_BAR_WIDTH /\ ~warned

\* calculate_layout, without the print of the warning: the layout, the
\* budget before the clamp, and whether the warning is due
calculate_layout(a, warned) ==
    LET term_width == get_terminal_width(a.size)
        emoji_len == IF a.show_emoji THEN a.emoji_len ELSE 0
        metrics_len == metrics_str_len(a.metrics, a.show_metrics)
        progress_len == progress_str_len(a.n, a.total)
        time_len == time_str_len(a.elapsed)
        raw == term_width - total_needed(a.desc_len, emoji_len, progress_len,
                                         time_len, metrics_len)
    IN  [term_width |-> term_width,
         raw_width |-> raw,
         available_width |-> bar_budget(raw),
         desc_display_len |-> IF a.desc_len > DESC_MAX THEN DESC_MAX
                              ELSE a.desc_len,
         metrics_len |-> metrics_len,
         progress_len |-> progress_len,
         time_len |-> time_len,
         warn |-> should_warn(raw, warned)]

RECURSIVE GradientLen(_, _)
\* create_color_gradient_bar: the length of the first i coloured cells of a
\* segment of fw cells, each "\033[38;2;{r};{g};0m" + SLIM_CHAR + "\033[0m"
GradientLen(i, fw) ==
    IF i = 0 THEN 0
    ELSE LET x == i - 1
             d == IF fw - 1 > 1 THEN fw - 1 ELSE 1
             r == IF 2 * x <= d THEN 255 ELSE (510 * (d - x)) \div d
             g == IF 2 * x <= d THEN (510 * x) \div d ELSE 255
         IN  GradientLen(i - 1, fw) + 16 + Digits(r) + Digits(g)

\* the widest segment the exact arithmetic above describes
MAX_EXACT_CELLS == 51

\* len(create_color_gradient_bar(fw)), tabulated
gradient_bar_len == [fw \in 0..MAX_EXACT_CELLS |-> GradientLen(fw, fw)]

(* IEEE 754 doubles, as far as line 111 needs them: the quotient of two     *)
(* small naturals and its product with a small natural, each rounded to 53  *)
(* significant bits, ties to even.  A mantissa is five limbs, the first     *)
(* its leading bit and the others 13 bits each; the double is the mantissa  *)
(* over 2^(zeros + 53).                                                     *)

LIMB == 8192
LIMBS == 5

RECURSIVE LeadingZeroBits(_, _)
\* the zero bits of r / d between the binary point and its first one bit
LeadingZeroBits(r, d) ==
    IF 2 * r >= d THEN 0 ELSE 1 + LeadingZeroBits(2 * r, d)

RECURSIVE QuotientLimbs(_, _, _)
\* the next c limbs of r / d, 0 <= r < d
QuotientLimbs(r, d, c) ==
    IF c = 0 THEN <<>>
    ELSE <<(r * LIMB) \div d>> \o QuotientLimbs((r * LIMB) % d, d, c - 1)

RECURSIVE QuotientRest(_, _, _)
\* the remainder of the long division after those c limbs
QuotientRest(r, d, c) ==
    IF c = 0 THEN r ELSE QuotientRest((r * LIMB) % d, d, c - 1)

RECURSIVE AddAt(_, _, _)
\* the mantissa plus c at limb i, the carry taken to the limbs before it
AddAt(limbs, i, c) ==
    IF i = 1 \/ limbs[i] + c < LIMB THEN [limbs EXCEPT ![i] = @ + c]
    ELSE AddAt([limbs EXCEPT ![i] = (@ + c) % LIMB], i - 1,
               (limbs[i] + c) \div LIMB)

RECURSIVE TimesFrom(_, _, _, _)
\* the limbs 1..i times the natural b, plus the carry of the limbs behind
TimesFrom(limbs, b, i, carry) ==
    IF i = 1 THEN <<limbs[1] * b + carry>>
    ELSE TimesFrom(limbs, b, i - 1, (limbs[i] * b + carry) \div LIMB)
            \o <<(limbs[i] * b + carry) % LIMB>>

RECURSIVE BitLength(_)
\* the bits of a natural number
BitLength(x) == IF x = 0 THEN 0 ELSE 1 + BitLength(x \div 2)

\* round to nearest, ties to even: the mantissa with its low bits cleared,
\* the weight of its last bit kept, the bits cleared, half that weight
RoundHalfEven(kept, unit, low, half) ==
    IF low > half \/ (low = half /\ (kept[LIMBS] \div unit) % 2 = 1)
    THEN AddAt(kept, LIMBS, unit)
    ELSE kept

\* n / d in doubles, 0 < n < d: the leading bit, then four limbs, then the
\* remainder against half of the divisor
DoubleQuotient(nn, d) ==
    LET z == LeadingZeroBits(nn, d)
        r == 2 * nn * 2^z - d
    IN  [limbs |-> RoundHalfEven(<<1>> \o QuotientLimbs(r, d, LIMBS - 1), 1,
                                 2 * QuotientRest(r, d, LIMBS - 1), d),
         zeros |-> z]

\* q * b in doubles, b a natural number below 2^12: the bits of the exact
\* product beyond the 53rd are dropped
DoubleTimes(q, b) ==
    LET p == TimesFrom(q.limbs, b, LIMBS, 0)
        unit == IF p[1] = 0 THEN 1 ELSE 2^(BitLength(p[1]) - 1)
        low == p[LIMBS] % unit
    IN  [limbs |-> RoundHalfEven([p EXCEPT ![LIMBS] = @ - low], unit,
                                 2 * low, unit),
         zeros |-> q.zeros]

\* int(x) of a double that is not negative
DoubleToInt(x) == x.limbs[1] \div 2^(x.zeros + 1)

\* render_progress_bar line 111: int((n / total) * available_width), for
\* 0 <= n <= total.  0 / total is 0.0 and total / total is 1.0, exactly;
\* int() truncates towards zero, so a negative width gives the negative of
\* what its magnitude gives.

filled_width(nn, tot, available) ==
    IF nn = 0 THEN 0
    ELSE IF nn = tot THEN available
    ELSE IF available < 0
         THEN -DoubleToInt(DoubleTimes(DoubleQuotient(nn, tot), -available))
    ELSE DoubleToInt(DoubleTimes(DoubleQuotient(nn, tot), available))

\* render_progress_bar lines 111-115: the cells of the filled part, one
\* coloured cell for each of filled_width, and of the empty part
bar_segments(nn, tot, available) ==
    [filled |-> filled_width(nn, tot, available),
     empty |-> available - filled_width(nn, tot, available)]

\* filled_width of the bars of two steps, tabulated
filled_width_of_2 ==
    [nn \in 0..2 |->
        [available \in 0..MAX_EXACT_CELLS |-> filled_width(nn, 2, available)]]

\* render_progress_bar on lengths: what the line shows, the length a
\* terminal displays and len(bar_str) with the colour codes
render_line(a, lay) ==
    LET shown == IF a.show_emoji THEN a.emoji_len ELSE 0
        filled == IF a.total = 2 /\ lay.available_width \in 0..MAX_EXACT_CELLS
                  THEN filled_width_of_2[a.n][lay.available_width]
                  ELSE filled_width(a.n, a.total, lay.available_width)
        visible == lay.desc_display_len + 2 + lay.available_width + shown + 1
                   + lay.progress_len + lay.time_len + lay.metrics_len
    IN  [n |-> a.n,
         total |-> a.total,
         filled |-> filled,
         visible_len |-> visible,
         len |-> visible - filled + gradient_bar_len[filled]]

(* The terminal's answer to a write.  sys.stdout takes everything; or it    *)
(* raises on the erase sequence "\033[K", the case the fallback of          *)
(* print_bar names; or its encoding has no "\u2503" and no emoji; or it is   *)
(* closed.                                                                  *)

NO_FAULT == "healthy"
ERASE_FAULT == "erase sequence rejected"
ENCODING_FAULT == "ascii encoding"
CLOSED_FAULT == "closed"
Faults == {NO_FAULT, ERASE_FAULT, ENCODING_FAULT, CLOSED_FAULT}

UnicodeEncodeError == "UnicodeEncodeError"
ClosedFileError == "ValueError: I/O operation on closed file"

WRITTEN == "written"
WRITTEN_BY_FALLBACK == "written by the fallback"

\* print() of a text: the warning has "\u26a0" in it, the line break of
\* finish is ASCII
print_outcome(f, ascii) ==
    IF f = CLOSED_FAULT THEN ClosedFileError
    ELSE IF f = ENCODING_FAULT /\ ~ascii THEN UnicodeEncodeError
    ELSE WRITTEN

\* print_bar: the try block, and the except block that writes the line a
\* second time.  The line always has the brackets "\u2503" in it.
print_bar_outcome(f) ==
    IF f = NO_FAULT THEN WRITTEN
    ELSE IF f = ERASE_FAULT THEN WRITTEN_BY_FALLBACK
    ELSE IF f = ENCODING_FAULT THEN UnicodeEncodeError
    ELSE ClosedFileError

\* the terminal after print_bar: the line replaced; or, when the line cannot
\* be encoded, erased by the sequences written before it; or untouched
terminal_after_print_bar(out, bar_str, f) ==
    IF print_bar_outcome(f) \in {WRITTEN, WRITTEN_BY_FALLBACK}
    THEN print_bar(out, bar_str)
    ELSE IF f = ENCODING_FAULT THEN [out EXCEPT !.line = <<>>]
    ELSE out

NoRender == [outcome |-> "none", narrow_seen |-> FALSE]

\* the terminal after the warning of calculate_layout, print("\n..."): the
\* text between two line breaks
warning_printed(out) ==
    [out EXCEPT !.warnings = @ + 1, !.newlines = @ + WARNING_BREAKS]

\* _print_bar lines 108-113 on a renderer r: render_progress_bar, with the
\* layout and its warning, then print_bar.  The result is the renderer, the
\* terminal and what the call did.
render_and_print(r, out, a, f, seen) ==
    LET lay == calculate_layout(a, r.warned_narrow)
        line == render_line(a, lay)
        narrow == lay.raw_width < MIN_BAR_WIDTH
        did(outcome, warned, returned) ==
            [outcome |-> outcome, args |-> a, layout |-> lay, line |-> line,
             warned |-> warned, returned |-> returned,
             narrow_before |-> seen, narrow_seen |-> seen \/ narrow]
    IN  IF lay.warn /\ print_outcome(f, FALSE) /= WRITTEN
        THEN \* the print of the warning raised, before the flag is set
             [renderer |-> r,
              stdout |-> out,
              rendered |-> did(print_outcome(f, FALSE), FALSE, FALSE)]
        ELSE LET out1 == IF lay.warn THEN warning_printed(out) ELSE out
                 ok == print_bar_outcome(f) \in {WRITTEN, WRITTEN_BY_FALLBACK}
             IN  [renderer |->
                     [warned_narrow |-> r.warned_narrow \/ lay.warn,
                      last_print_len |-> IF ok THEN line.len
                                         ELSE r.last_print_len],
                  stdout |-> terminal_after_print_bar(out1, line, f),
                  rendered |-> did(print_bar_outcome(f), lay.warn, TRUE)]

\* the last character on the terminal after a render: the bar line, which
\* has no line break in it, when print_bar wrote it; the carriage return
\* and the erase sequence written before a line that cannot be encoded;
\* the line break that ends the warning when only that was written
last_written(prev, did) ==
    IF did.returned /\ did.outcome /= ClosedFileError THEN "text"
    ELSE IF did.warned THEN "line break"
    ELSE prev

\* the objects a run does not use stay as constructed
IdleTracker ==
    /\ tracker = MetricsTrackerNew(DEFAULT_MAX_HISTORY)
    /\ passed = <<>>

IdleSmartTQDM ==
    /\ smart = PyNone
    /\ threads = <<>>
    /\ caller = PyNone

IdleRenderer ==
    /\ renderer = TerminalRendererNew
    /\ rendered = NoRender
    /\ last_write = "nothing"
    /\ IdleSmartTQDM

\* a SmartBar of smart_tqdm on a terminal that takes every write, and
\* nothing else in use
Idle ==
    /\ IdleTracker
    /\ IdleRenderer
    /\ package = "smart_tqdm"
    /\ fault = NO_FAULT

---------------------------------------------------------------------------
(* smart_bar.py: SmartBar *)

\* __init__
SmartBarInit(tot, se, sm, sel) ==
    /\ total = tot
    /\ show_emoji = se
    /\ show_metrics = sm
    /\ emoji_selector = sel
    /\ n = 0
    /\ emoji = ""
    /\ metrics = NoMetrics
    /\ metric_history = <<>>
    /\ best_accuracy = 0
    /\ best_loss = INF
    /\ stdout = [line |-> <<>>, newlines |-> 0, warnings |-> 0]
    /\ yielded = <<>>
    /\ raised = NoError
    /\ exhausted = FALSE
    /\ closed = FALSE

\* set_emoji
set_emoji(e) ==
    /\ emoji' = e
    /\ raised' = NoError
    /\ UNCHANGED <<total, n, metrics, emoji_selector, show_emoji, show_metrics,
                   metric_history, best_accuracy, best_loss, stdout, yielded,
                   exhausted, closed>>

\* set_emoji_selector
set_emoji_selector(sel) ==
    /\ emoji_selector' = sel
    /\ raised' = NoError
    /\ UNCHANGED <<total, n, emoji, metrics, show_emoji, show_metrics,
                   metric_history, best_accuracy, best_loss, stdout, yielded,
                   exhausted, closed>>

\* set_metrics: the mapping is stored, then recorded by the tracker
set_metrics(m) ==
    /\ metrics' = m
    /\ IF Coercible(m)
       THEN update_metrics(n, m) /\ raised' = NoError
       ELSE /\ UNCHANGED <<metric_history, best_accuracy, best_loss>>
            /\ raised' = InvalidMetricValue
    /\ UNCHANGED <<total, n, emoji, emoji_selector, show_emoji, show_metrics,
                   stdout, yielded, exhausted, closed>>

\* dict.update: the keys of m are set, the other keys stay
DictUpdate(d, m) ==
    [k \in DOMAIN d \cup DOMAIN m |-> IF k \in DOMAIN m THEN m[k] ELSE d[k]]

\* set_metrics of tqdmpp's SmartBar: the mapping is merged into the stored
\* one, then recorded by the tracker
tqdmpp_set_metrics(m) ==
    /\ metrics' = DictUpdate(metrics, m)
    /\ IF Coercible(m)
       THEN update_metrics(n, m) /\ raised' = NoError
       ELSE /\ UNCHANGED <<metric_history, best_accuracy, best_loss>>
            /\ raised' = InvalidMetricValue
    /\ UNCHANGED <<total, n, emoji, emoji_selector, show_emoji, show_metrics,
                   stdout, yielded, exhausted, closed>>

\* _select_emoji, called by _print_bar only when a selector is set
select_emoji(nn) ==
    LET td == get_trend_data IN
    IF emoji_selector /= NoSelector
    THEN ApplyPolicy(emoji_selector, nn, total, metrics, td.best_accuracy,
                     td.best_loss, td.accuracy_trend, td.loss_trend)
    ELSE intelligent_default_selector(nn, total, metrics, td.best_accuracy,
                     td.best_loss, td.accuracy_trend, td.loss_trend)

\* _print_bar, lines 100-106: the token to show at index nn
print_bar_emoji(nn) ==
    IF show_emoji
    THEN IF emoji_selector /= NoSelector THEN select_emoji(nn)
         ELSE IF emoji = "" THEN STABLE_EARLY
         ELSE emoji
    ELSE emoji

\* variant of the end test that lets one more advance through
at_end_off_by_one(nn, tot) == nn > tot

\* __next__ line 121: the bar is at its end

at_end(nn, tot) == nn >= tot

\* variant that returns the index after the increment
next_return_current(nn) == nn

\* __next__ line 126: the value returned after the increment

next_return(nn) == nn - 1

\* __next__
dunder_next ==
    IF at_end(n, total)
    THEN /\ IF print_outcome(fault, TRUE) = WRITTEN
            THEN /\ stdout' = finish(stdout)
                 /\ raised' = StopIteration
                 /\ exhausted' = TRUE
            ELSE \* the print of finish raised: StopIteration is not reached
                 /\ raised' = print_outcome(fault, TRUE)
                 /\ UNCHANGED <<stdout, exhausted>>
         /\ UNCHANGED <<total, n, emoji, metrics, emoji_selector, show_emoji,
                        show_metrics, metric_history, best_accuracy, best_loss,
                        yielded, closed>>
    ELSE /\ n' = n + 1
         /\ LET e == print_bar_emoji(n + 1) IN
            IF e \in {ValueError, ZeroDivisionError, KeyError}
            THEN \* the selector raised: nothing is written, nothing returned
                 /\ raised' = e
                 /\ UNCHANGED <<emoji, stdout, yielded>>
            ELSE /\ emoji' = e
                 /\ stdout' = terminal_after_print_bar(stdout,
                        render_progress_bar(n + 1, total, e, metrics,
                                            show_emoji, show_metrics), fault)
                 /\ IF print_bar_outcome(fault) \in {WRITTEN, WRITTEN_BY_FALLBACK}
                    THEN /\ yielded' = Append(yielded, next_return(n + 1))
                         /\ raised' = NoError
                    ELSE \* print_bar raised: nothing is returned
                         /\ raised' = print_bar_outcome(fault)
                         /\ UNCHANGED yielded
         /\ UNCHANGED <<total, metrics, emoji_selector, show_emoji, show_metrics,
                        metric_history, best_accuracy, best_loss, exhausted,
                        closed>>

\* close
close ==
    /\ IF print_outcome(fault, TRUE) = WRITTEN
       THEN stdout' = finish(stdout) /\ raised' = NoError
       ELSE UNCHANGED stdout /\ raised' = print_outcome(fault, TRUE)
    /\ closed' = TRUE
    /\ UNCHANGED <<total, n, emoji, metrics, emoji_selector, show_emoji,
                   show_metrics, metric_history, best_accuracy, best_loss,
                   yielded, exhausted>>

---------------------------------------------------------------------------
(* The bar driven by any caller: every order of __next__, set_metrics,      *)
(* set_emoji, set_emoji_selector and close.  The metrics are well formed:   *)
(* numbers, or the numeric texts the demos pass (f"{x:.3f}").               *)

BarMetricsInputs ==
    {[acc |-> Str(500)],
     [acc |-> Num(900), loss |-> Num(300)],
     [loss |-> Num(100)]}

UserEmojis == {"", HEAD_EMOJI}

NoCall == [policy |-> "none", n |-> 0, total |-> 1, metrics |-> NoMetrics,
           best_accuracy |-> 0, best_loss |-> INF, accuracy_trend |-> 0,
           loss_trend |-> 0, result |-> "none"]

Init ==
    /\ \E tot \in 1..MaxTotal, se \in BOOLEAN, sm \in BOOLEAN,
          sel \in {NoSelector} \cup Selectors :
            SmartBarInit(tot, se, sm, sel)
    /\ call = NoCall
    /\ script = <<>>
    /\ phase = "free"
    /\ Idle

Advance ==
    /\ at_end(n, total) => stdout.newlines < MaxFinish
    /\ dunder_next
    /\ UNCHANGED <<call, script, phase, mtVars, envVars>>

Close ==
    /\ stdout.newlines < MaxFinish
    /\ close
    /\ UNCHANGED <<call, script, phase, mtVars, envVars>>

SetMetrics ==
    /\ Len(metric_history) < MaxRecords
    /\ \E m \in BarMetricsInputs : set_metrics(m)
    /\ UNCHANGED <<call, script, phase, mtVars, envVars>>

SetEmoji ==
    /\ \E e \in UserEmojis : set_emoji(e)
    /\ UNCHANGED <<call, script, phase, mtVars, envVars>>

SetEmojiSelector ==
    /\ \E sel \in {NoSelector} \cup Selectors : set_emoji_selector(sel)
    /\ UNCHANGED <<call, script, phase, mtVars, envVars>>

Next == Advance \/ Close \/ SetMetrics \/ SetEmoji \/ SetEmojiSelector

Spec == Init /\ [][Next]_vars

---------------------------------------------------------------------------
(* Claims about the bar's life cycle, checked under Spec *)

\* C1: every __next__ made while n < total adds exactly 1 to n and returns
\* the value n had before, and nothing else changes n: the values returned
\* so far are exactly 0, 1, ..., n-1, in increasing order, each once.
C1_YieldsIndicesInOrder ==
    /\ Len(yielded) = n
    /\ \A i \in 1..Len(yielded) : yielded[i] = i - 1

\* a for-loop has consumed a bar of total >= 2: all indices are out and the
\* end of the iteration has been signalled
C1_Witness ==
    /\ total >= 2
    /\ exhausted
    /\ Len(yielded) = total
    /\ yielded[total] = total - 1

\* C2: a bar that has received all its advances has n = total, and the line
\* break that finishes it is written exactly once, whether the bar is ended
\* by exhausting the iteration, by close(), or by both.
C2_FinishedExactlyOnce ==
    (n = total /\ (exhausted \/ closed)) => stdout.newlines = 1

\* C3: 0 <= n <= total in every state reachable by __next__, set_metrics,
\* set_emoji, set_emoji_selector and close on a bar of positive total.
C3_IndexWithinBounds == 0 <= n /\ n <= total

\* the bar is at its end and __next__ has been called on it again (the end
\* of iteration was signalled), after metrics, emoji and close calls
C3_Witness ==
    /\ n = total
    /\ exhausted
    /\ closed
    /\ metrics /= NoMetrics
    /\ emoji = HEAD_EMOJI

\* C4: once the bar is exhausted or closed, a later update operation
\* (__next__, set_metrics) leaves n, the stored metrics, the metric history
\* and the terminal output as they are, or fails with BarAlreadyClosed.
C4_NoUpdateAfterEnd ==
    [][ ((exhausted \/ closed) /\ (dunder_next \/ \E m \in BarMetricsInputs : set_metrics(m)))
        => \/ UNCHANGED <<n, metrics, metric_history, best_accuracy, best_loss, stdout>>
           \/ raised' = BarAlreadyClosed ]_vars

\* C5: close() is idempotent: a second or later close() changes no state of
\* the bar and writes nothing more to the terminal.
C5_CloseIdempotent ==
    [][ (closed /\ close)
        => UNCHANGED <<total, n, emoji, metrics, emoji_selector, show_emoji,
                       show_metrics, metric_history, best_accuracy, best_loss,
                       stdout>> ]_vars

\* C6: a bar without an emoji selector that shows its token chooses it on
\* every update with the built-in policy, intelligent_default_selector,
\* applied to the current metrics, best values and trends.
C6_DefaultPolicyChoosesToken ==
    [][ (dunder_next /\ ~at_end(n, total) /\ show_emoji /\ emoji_selector = NoSelector)
        => emoji' = intelligent_default_selector(n', total, metrics,
                        get_trend_data.best_accuracy, get_trend_data.best_loss,
                        get_trend_data.accuracy_trend, get_trend_data.loss_trend) ]_vars

\* C10: the metrics of a step are recorded before the step's line is
\* rendered; in particular, when the bar finishes (the first __next__ at the
\* end), the line on the terminal displays the metrics recorded last.
C10_LastMetricsRendered ==
    [][ (dunder_next /\ at_end(n, total) /\ ~exhausted /\ show_metrics
            /\ stdout.line /= <<>>)
        => stdout.line[1].metrics = metrics ]_vars

---------------------------------------------------------------------------
(* The emoji policies called directly, as the pure functions they are:      *)
(* the arguments are drawn at the start, one step applies the policy.       *)

AccInputs == {Num(500), Num(750), Num(850), Num(920), Str(990), NotANumber}
LossInputs == {Num(50), Num(200), Str(400), Num(800), Num(1500), NotANumber}

SelMetricsInputs ==
    {NoMetrics}
    \cup {[acc |-> a] : a \in AccInputs}
    \cup {[loss |-> l] : l \in LossInputs}
    \cup {[acc |-> a, loss |-> l] : a \in AccInputs, l \in LossInputs}

BestAccuracyInputs == {0, 750, 1000}
BestLossInputs == {INF, 400, 10}
TrendValues == {-1, 0, 1}
PENDING == "pending"

InitSel ==
    /\ SmartBarInit(1, TRUE, TRUE, NoSelector)
    /\ script = <<>>
    /\ phase = "free"
    /\ Idle
    /\ \E p \in Policies, tot \in 1..MaxSelTotal, m \in SelMetricsInputs,
          ba \in BestAccuracyInputs, bl \in BestLossInputs,
          at \in TrendValues, lt \in TrendValues :
        \E nn \in 0..tot :
            call = [policy |-> p, n |-> nn, total |-> tot, metrics |-> m,
                    best_accuracy |-> ba, best_loss |-> bl,
                    accuracy_trend |-> at, loss_trend |-> lt,
                    result |-> PENDING]

CallPolicy ==
    /\ call.result = PENDING
    /\ call' = [call EXCEPT !.result =
                   ApplyPolicy(call.policy, call.n, call.total, call.metrics,
                               call.best_accuracy, call.best_loss,
                               call.accuracy_trend, call.loss_trend)]
    /\ UNCHANGED <<barVars, script, phase, mtVars, envVars>>

NextSel == CallPolicy

SpecSel == InitSel /\ [][NextSel]_vars

\* the call has returned (or raised)
Returned == call.result /= PENDING

\* a well-formed input: 0 <= n <= total, total positive, trends in -1..1 (all
\* by the choice of the arguments) and every metric value a number
WellFormedCall == Coercible(call.metrics)

\* the latest value of a metric the policy responds to is its best so far,
\* within the tolerance 0.001
NewBestAccuracy ==
    Has(call.metrics, "acc") /\ Float(call.metrics["acc"]) >= call.best_accuracy - 1
NewBestLoss ==
    Has(call.metrics, "loss") /\ Float(call.metrics["loss"]) <= call.best_loss + 1
AchievedNewBest ==
    \/ call.policy \in {DEFAULT_POLICY, ACCURACY_POLICY} /\ NewBestAccuracy
    \/ call.policy \in {DEFAULT_POLICY, LOSS_POLICY} /\ NewBestLoss

\* the trends the policy responds to
SomeTrendImproving ==
    \/ call.policy \in {DEFAULT_POLICY, ACCURACY_POLICY} /\ call.accuracy_trend = 1
    \/ call.policy \in {DEFAULT_POLICY, LOSS_POLICY} /\ call.loss_trend = 1
SomeTrendDeclining ==
    \/ call.policy \in {DEFAULT_POLICY, ACCURACY_POLICY} /\ call.accuracy_trend = -1
    \/ call.policy \in {DEFAULT_POLICY, LOSS_POLICY} /\ call.loss_trend = -1

\* the metric an accuracy or loss policy reads is among the metrics
PolicyMetricPresent ==
    /\ call.policy = ACCURACY_POLICY => Has(call.metrics, "acc")
    /\ call.policy = LOSS_POLICY => Has(call.metrics, "loss")

ImprovingTokens == {IMPROVING_FAST, IMPROVING, IMPROVING_STEADY, IMPROVING_TREND,
                    LOSS_IMPROVING}
DecliningTokens == {DECLINING, DECLINING_DECENT, DECLINING_LOW}
StableTokens == {STABLE_GOOD, STABLE_EARLY, STABLE_EXCELLENT, STABLE_LOW, IMPROVING}

\* C7: the token follows the priority order: a new best value of a recorded
\* metric gives the new-best token whatever the trends; otherwise a non-zero
\* trend decides the token; a stable token is returned only when neither
\* applies.
C7_PriorityOrder ==
    (Returned /\ WellFormedCall /\ PolicyMetricPresent) =>
        IF AchievedNewBest THEN call.result = NEW_BEST
        ELSE IF SomeTrendImproving THEN call.result \in ImprovingTokens
        ELSE IF SomeTrendDeclining THEN call.result \in DecliningTokens
        ELSE call.result \in StableTokens

\* C9: every policy is total: on a well-formed input (any metrics mapping of
\* numbers, the empty one and one without 'acc' or 'loss' included) it
\* returns a token and raises nothing.
C9_PoliciesTotal ==
    (Returned /\ WellFormedCall) => call.result \in Tokens

\* the accuracy policy has returned for metrics without 'acc' (the empty
\* mapping among them)
C9_Witness ==
    /\ Returned
    /\ WellFormedCall
    /\ call.policy = ACCURACY_POLICY
    /\ ~Has(call.metrics, "acc")
    /\ call.result = STABLE_EARLY

---------------------------------------------------------------------------
(* A scripted run of a bar with the default policy: at each step the caller *)
(* records the step's 'acc' value, then advances; at the end it closes.     *)

\* the values of the end-to-end scenario: 0.5, 0.55, ..., 0.75, 0.9
ScenarioScript == <<500, 550, 600, 650, 700, 700, 700, 700, 750, 900>>

Scripts ==
    {ScenarioScript,
     <<100, 200, 300, 400, 500, 600, 700, 800, 900, 990>>,
     <<900, 900, 900, 900, 900, 900, 900, 900, 900, 900>>,
     <<900, 800, 700, 600, 500, 400, 300, 200, 100, 50>>,
     <<500, 900, 500, 900, 500, 900, 500, 900, 500, 900>>,
     <<900, 500, 500, 500, 600, 700, 700, 650, 600, 600>>,
     <<700, 700, 800>>,
     <<800, 600>>}

InitScript ==
    /\ script \in Scripts
    /\ SmartBarInit(Len(script), TRUE, TRUE, NoSelector)
    /\ phase = "record"
    /\ call = NoCall
    /\ Idle

ScriptRecord ==
    /\ phase = "record"
    /\ n < total
    /\ set_metrics([acc |-> Num(script[n + 1])])
    /\ phase' = "advance"
    /\ UNCHANGED <<call, script, mtVars, envVars>>

ScriptAdvance ==
    /\ phase = "advance"
    /\ dunder_next
    /\ phase' = "record"
    /\ UNCHANGED <<call, script, mtVars, envVars>>

ScriptClose ==
    /\ phase = "record"
    /\ n = total
    /\ close
    /\ phase' = "closed"
    /\ UNCHANGED <<call, script, mtVars, envVars>>

NextScript == ScriptRecord \/ ScriptAdvance \/ ScriptClose

SpecScript == InitScript /\ [][NextScript]_vars

\* what the default policy reports for the state of the bar
DefaultPolicyReport ==
    intelligent_default_selector(n, total, metrics,
        get_trend_data.best_accuracy, get_trend_data.best_loss,
        get_trend_data.accuracy_trend, get_trend_data.loss_trend)

\* C8: in the scenario the policy reports new-best exactly on steps 0-4, 8
\* and 9, where acc exceeds all earlier values, and stable on the plateau,
\* steps 5-7.  (Step i has just been advanced when n = i + 1.)
C8_ScenarioReports ==
    (script = ScenarioScript /\ phase = "record" /\ n >= 1) =>
        IF n - 1 \in {0, 1, 2, 3, 4, 8, 9}
        THEN DefaultPolicyReport = NEW_BEST
        ELSE DefaultPolicyReport \in {STABLE_GOOD, STABLE_EARLY}

---------------------------------------------------------------------------
(* A MetricsTracker driven by any caller: update with any mapping, numbers  *)
(* or not, in any order.                                                    *)

MaxUpdates == 6      \* update calls per tracker

HistorySizes == {2, TREND_WINDOW}

MetricNames == {"acc", "loss"}

MTInputs ==
    {[acc |-> Num(500)],
     [acc |-> Num(700)],
     [loss |-> Num(500)],
     [loss |-> Num(900)],
     [acc |-> Str(900)],
     [loss |-> NotANumber],
     [acc |-> Num(600), loss |-> Num(300)]}

InitMT ==
    /\ SmartBarInit(1, TRUE, TRUE, NoSelector)
    /\ call = NoCall
    /\ script = <<>>
    /\ phase = "free"
    /\ \E mh \in HistorySizes : tracker = MetricsTrackerNew(mh)
    /\ passed = <<>>
    /\ IdleRenderer
    /\ package = "smart_tqdm"
    /\ fault = NO_FAULT

\* tracker.update(m): the call returns normally whatever the values are
MTUpdate ==
    /\ Len(passed) < MaxUpdates
    /\ \E m \in MTInputs :
        /\ tracker' = MetricsTracker_update(tracker, m)
        /\ passed' = Append(passed, m)
    /\ raised' = NoError
    /\ UNCHANGED <<total, n, emoji, metrics, emoji_selector, show_emoji,
                   show_metrics, metric_history, best_accuracy, best_loss,
                   stdout, yielded, exhausted, closed, call, script, phase,
                   envVars>>

NextMT == MTUpdate

SpecMT == InitMT /\ [][NextMT]_vars

RECURSIVE ValuesPassed(_, _, _)
\* the values handed in under a name, in order, that satisfy a test on
\* their kind ("num": ints and floats; "str": numeric texts)
ValuesPassed(log, k, kinds) ==
    IF log = <<>> THEN <<>>
    ELSE LET m == log[Len(log)]
             before == ValuesPassed(SubSeq(log, 1, Len(log) - 1), k, kinds)
         IN  IF k \in DOMAIN m /\ m[k].t \in kinds
             THEN Append(before, m[k].v)
             ELSE before

NumbersPassed(k) == ValuesPassed(passed, k, {"num"})

\* C11: the best value kept for a name never regresses: for a name
\* containing "loss" it is the running minimum of the numbers recorded under
\* that name, for every other name the running maximum.
C11_BestIsRunningExtreme ==
    \A k \in MetricNames :
        NumbersPassed(k) /= <<>> =>
            /\ k \in DOMAIN tracker.best_values
            /\ tracker.best_values[k] =
                   IF IsLossName(k) THEN SeqMin(NumbersPassed(k))
                   ELSE SeqMax(NumbersPassed(k))

C14_HistoryIsLastK ==
    \A k \in MetricNames :
        LET h == IF k \in DOMAIN tracker.history THEN tracker.history[k]
                 ELSE <<>>
        IN  /\ Len(h) <= tracker.max_history
            /\ h = LastValues(NumbersPassed(k), tracker.max_history)

\* a full window of two has been recorded into twice more
C14_Witness ==
    /\ tracker.max_history = 2
    /\ NumbersPassed("acc") = <<500, 700, 600, 500>>
    /\ tracker.history["acc"] = <<600, 500>>

\* C15: a value that is not a number is coerced to a float and tracked like
\* any number; when it cannot be coerced the update fails with
\* InvalidMetricValue; no value is passed over in silence.
C15_NonNumbersCoercedOrRejected ==
    passed /= <<>> =>
        LET m == passed[Len(passed)] IN
        \A k \in DOMAIN m :
            IF CanFloat(m[k])
            THEN get_latest(tracker, k) = Num(Float(m[k]))
            ELSE raised = InvalidMetricValue

---------------------------------------------------------------------------
(* The bar's tracker fed by set_metrics alone: every sequence of records,   *)
(* of 'acc', of 'loss' or of both, rolling through the window.              *)

TrendInputs ==
    {[acc |-> Num(500)], [acc |-> Num(508)], [acc |-> Num(520)],
     [loss |-> Num(500)], [loss |-> Num(508)], [loss |-> Num(520)],
     [acc |-> Num(508), loss |-> Num(508)],
     [acc |-> Num(520), loss |-> Num(500)]}

InitTrend ==
    /\ SmartBarInit(1, TRUE, TRUE, NoSelector)
    /\ call = NoCall
    /\ script = <<>>
    /\ phase = "free"
    /\ IdleTracker
    /\ IdleRenderer
    /\ fault = NO_FAULT
    /\ package \in Packages

\* set_metrics of the SmartBar of a package
SetMetricsOf(pkg, m) ==
    IF pkg = "tqdmpp" THEN tqdmpp_set_metrics(m) ELSE set_metrics(m)

TrendRecord ==
    /\ \E m \in TrendInputs : SetMetricsOf(package, m)
    /\ UNCHANGED <<call, script, phase, mtVars, envVars>>

NextTrend == TrendRecord

SpecTrend == InitTrend /\ [][NextTrend]_vars

\* the two-point comparison of the claim, on the values of metric k in the
\* window: first is the oldest of the last 3, last the newest
TwoPoint(k, threshold) ==
    LET s == Series(metric_history, k)
        first == s[Len(s) - 2]
        last == s[Len(s)]
    IN  IF k = "loss"
        THEN (IF last < first - threshold THEN 1
              ELSE IF last > first + threshold THEN -1 ELSE 0)
        ELSE (IF last > first + threshold THEN 1
              ELSE IF last < first - threshold THEN -1 ELSE 0)

C16_StoredMetricsAreLatest ==
    [][\A m \in TrendInputs : SetMetricsOf(package, m) => metrics' = m]_vars

\* the same, of the SmartBar of smart_tqdm alone
C16_SmartTqdmStoresLatest ==
    [][\A m \in TrendInputs :
          (package = "smart_tqdm" /\ set_metrics(m)) => metrics' = m]_vars

---------------------------------------------------------------------------
(* A TerminalRenderer driven directly: any sequence of renders, on a        *)
(* terminal of any width, resized between calls, whose width query may      *)
(* fail, and which takes every write or rejects the erase sequence.         *)

\* the arguments of a render: the terminal's answer to the width query, the
\* length of the description, the emoji, the metrics, the progress and the
\* elapsed time in thousandths of a second
RenderArgs ==
    LET Sizes ==
            {[ok |-> FALSE, columns |-> 0]}
                \cup {[ok |-> TRUE, columns |-> c] : c \in {30, 39, 45, 80}}
        DescLens == {0, 25}
        EmojiArgs ==
            {[emoji_len |-> 0, show_emoji |-> TRUE],
             [emoji_len |-> 1, show_emoji |-> TRUE],
             [emoji_len |-> 1, show_emoji |-> FALSE]}
        MetricsArgs ==
            {[metrics |-> NoMetrics, show_metrics |-> TRUE],
             [metrics |-> [acc |-> Num(900), loss |-> Num(300)],
              show_metrics |-> TRUE],
             [metrics |-> [acc |-> Str(500)], show_metrics |-> FALSE]}
        ProgressArgs ==
            {[n |-> 0, total |-> 2], [n |-> 1, total |-> 2],
             [n |-> 2, total |-> 2]}
        ElapsedArgs == {0, 1234}
    IN  {[size |-> sz, desc_len |-> dl, emoji_len |-> ea.emoji_len,
          show_emoji |-> ea.show_emoji, metrics |-> ma.metrics,
          show_metrics |-> ma.show_metrics, n |-> pr.n, total |-> pr.total,
          elapsed |-> el] :
            sz \in Sizes, dl \in DescLens, ea \in EmojiArgs,
            ma \in MetricsArgs, pr \in ProgressArgs, el \in ElapsedArgs}

InitRender ==
    /\ SmartBarInit(1, TRUE, TRUE, NoSelector)
    /\ call = NoCall
    /\ script = <<>>
    /\ phase = "free"
    /\ IdleTracker
    /\ package = "smart_tqdm"
    /\ fault \in {NO_FAULT, ERASE_FAULT}
    /\ IdleRenderer

RenderCall ==
    /\ \E a \in RenderArgs :
        LET res == render_and_print(renderer, stdout, a, fault,
                                    rendered.narrow_seen)
        IN  /\ renderer' = res.renderer
            /\ stdout' = res.stdout
            /\ rendered' = res.rendered
            /\ last_write' = last_written(last_write, res.rendered)
    /\ UNCHANGED <<total, n, emoji, metrics, emoji_selector, show_emoji,
                   show_metrics, metric_history, best_accuracy, best_loss,
                   yielded, raised, exhausted, closed, call, script, phase,
                   mtVars, package, fault, smartVars>>

NextRender == RenderCall

SpecRender == InitRender /\ [][NextRender]_vars

\* a layout has been returned
LayoutReturned == rendered.outcome /= "none" /\ rendered.returned

\* C17: for every terminal width, description, token, metrics mapping and
\* 0 <= n <= total, the bar budget calculate_layout returns is at least the
\* minimum bar width, 10.
C17_BudgetAtLeastMinimum ==
    LayoutReturned => rendered.layout.available_width >= 10

\* a terminal of 30 columns leaves a negative budget, and 10 is returned
C17_Witness ==
    /\ LayoutReturned
    /\ rendered.layout.term_width = 30
    /\ rendered.layout.raw_width < 0
    /\ rendered.layout.available_width = 10

\* C18: over any sequence of renders on one renderer the warning of a narrow
\* terminal is emitted at most once: on the first call whose computed budget
\* is below the minimum bar width, which every call on a terminal narrower
\* than 40 columns is, and on no later call.
C18_WarningOnce ==
    /\ stdout.warnings <= 1
    /\ LayoutReturned =>
        /\ rendered.warned <=>
               (rendered.layout.raw_width < 10 /\ ~rendered.narrow_before)
        /\ rendered.layout.term_width < MIN_TERM_WIDTH =>
               rendered.layout.raw_width < 10
        /\ stdout.warnings = IF rendered.narrow_seen THEN 1 ELSE 0

\* a second narrow call, on a terminal of 39 columns, after the warning
C18_Witness ==
    /\ LayoutReturned
    /\ rendered.narrow_before
    /\ rendered.layout.term_width = 39
    /\ ~rendered.warned
    /\ stdout.warnings = 1

\* C19 as stated: for every input the visible length of the line does not
\* exceed the terminal width used by the layout.
C19_LineFitsTerminal ==
    LayoutReturned => rendered.line.visible_len <= rendered.layout.term_width

\* C19, amended: whenever the computed budget is not below the minimum bar
\* width, so that it is not clamped, the visible length of the line does not
\* exceed the terminal width used by the layout.
C19_UnclampedLineFits ==
    (LayoutReturned /\ rendered.layout.raw_width >= 10) =>
        rendered.line.visible_len <= rendered.layout.term_width

\* a full line on 80 columns with a long description, a token and metrics,
\* the budget not clamped
C19_Witness ==
    /\ LayoutReturned
    /\ rendered.layout.term_width = 80
    /\ rendered.layout.raw_width >= 10
    /\ rendered.args.desc_len > DESC_MAX
    /\ rendered.args.emoji_len = 1 /\ rendered.args.show_emoji
    /\ rendered.layout.metrics_len = 0
    /\ rendered.line.visible_len <= 80

---------------------------------------------------------------------------
(* The bar on a terminal that may fail: the writes of __next__ and close    *)
(* answered as the fault of the terminal has it.                            *)

InitFault ==
    /\ \E tot \in 1..MaxTotal, se \in BOOLEAN, sel \in {NoSelector} \cup Selectors :
            SmartBarInit(tot, se, TRUE, sel)
    /\ call = NoCall
    /\ script = <<>>
    /\ phase = "free"
    /\ IdleTracker
    /\ IdleRenderer
    /\ package = "smart_tqdm"
    /\ fault \in Faults

FaultAdvance ==
    /\ at_end(n, total) => stdout.newlines < MaxFinish
    /\ n < total => raised \notin {UnicodeEncodeError, ClosedFileError}
    /\ dunder_next
    /\ UNCHANGED <<call, script, phase, mtVars, envVars>>

FaultSetMetrics ==
    /\ Len(metric_history) < MaxRecords
    /\ \E m \in BarMetricsInputs : set_metrics(m)
    /\ UNCHANGED <<call, script, phase, mtVars, envVars>>

FaultClose ==
    /\ stdout.newlines < MaxFinish
    /\ ~closed
    /\ close
    /\ UNCHANGED <<call, script, phase, mtVars, envVars>>

NextFault == FaultAdvance \/ FaultSetMetrics \/ FaultClose

SpecFault == InitFault /\ [][NextFault]_vars

\* C20: a failure of the width query or of the write of the bar line is
\* recovered inside the renderer; none propagates out of __next__.
C20_NoFailureOutOfNext ==
    raised \notin {UnicodeEncodeError, ClosedFileError}

---------------------------------------------------------------------------
(* The round trip of a TerminalRenderer: the bar rendered and written at    *)
(* n = 0, then at n = total, then finish().  The terminal may be resized    *)
(* and time passes between the two renders; the description, the emoji and  *)
(* the metrics are the same in both.                                        *)

InitRound ==
    /\ SmartBarInit(1, TRUE, TRUE, NoSelector)
    /\ call = NoCall
    /\ script = <<>>
    /\ phase = "render at 0"
    /\ IdleTracker
    /\ package = "smart_tqdm"
    /\ fault \in {NO_FAULT, ERASE_FAULT}
    /\ IdleRenderer

\* render_progress_bar and print_bar with the arguments a
RoundRender(a) ==
    LET res == render_and_print(renderer, stdout, a, fault,
                                rendered.narrow_seen)
    IN  /\ renderer' = res.renderer
        /\ stdout' = res.stdout
        /\ rendered' = res.rendered
        /\ last_write' = last_written(last_write, res.rendered)
        /\ UNCHANGED <<total, n, emoji, metrics, emoji_selector, show_emoji,
                       show_metrics, metric_history, best_accuracy,
                       best_loss, yielded, raised, exhausted, closed, call,
                       script, mtVars, package, fault, smartVars>>

RoundFirst ==
    /\ phase = "render at 0"
    /\ \E a \in RenderArgs : a.n = 0 /\ RoundRender(a)
    /\ phase' = "render at total"

RoundLast ==
    /\ phase = "render at total"
    /\ \E a \in RenderArgs :
        /\ a.n = a.total
        /\ [a EXCEPT !.n = 0, !.size = rendered.args.size,
                     !.elapsed = rendered.args.elapsed] = rendered.args
        /\ RoundRender(a)
    /\ phase' = "finish"

RoundFinish ==
    /\ phase = "finish"
    /\ print_outcome(fault, TRUE) = WRITTEN
    /\ stdout' = finish(stdout)
    /\ last_write' = IF stdout'.newlines > stdout.newlines THEN "line break"
                     ELSE last_write
    /\ phase' = "done"
    /\ UNCHANGED <<total, n, emoji, metrics, emoji_selector, show_emoji,
                   show_metrics, metric_history, best_accuracy, best_loss,
                   yielded, raised, exhausted, closed, call, script, mtVars,
                   package, fault, renderer, rendered, smartVars>>

NextRound == RoundFirst \/ RoundLast \/ RoundFinish

SpecRound == InitRound /\ [][NextRound]_vars

\* C21, as stated: after the bar is rendered and written at n = 0, then at
\* n = total, and finish() is called, exactly one line break has been
\* written, and it is the last character of the output.
C21_OneTrailingNewline ==
    phase = "done" => stdout.newlines = 1 /\ last_write = "line break"

\* C21, amended: after the round trip the last character of the output is
\* the line break of finish(); it is the only line break unless the
\* narrow-terminal warning was printed, which adds its two.
C21_OneNewlineBesideWarning ==
    phase = "done" =>
        /\ last_write = "line break"
        /\ stdout.newlines = 1 + WARNING_BREAKS * stdout.warnings

\* a round trip on a terminal wide enough: the full bar on the line, no
\* warning, one line break
C21_Witness ==
    /\ phase = "done"
    /\ stdout.warnings = 0
    /\ stdout.newlines = 1
    /\ stdout.line /= <<>>
    /\ stdout.line[1].n = stdout.line[1].total
    /\ stdout.line[1].filled = rendered.layout.available_width

---------------------------------------------------------------------------
(* The constructor given any total, the non-positive ones included, and     *)
(* the bar it returns driven by any caller.                                 *)

InvalidConfiguration == "InvalidConfiguration"

InitConfig ==
    /\ \E tot \in -1..MaxTotal, se \in BOOLEAN, sm \in BOOLEAN,
          sel \in {NoSelector} \cup Selectors :
            SmartBarInit(tot, se, sm, sel)
    /\ call = NoCall
    /\ script = <<>>
    /\ phase = "free"
    /\ Idle

SpecConfig == InitConfig /\ [][Next]_vars

\* C22: a bar constructed with a non-positive total has failed with
\* InvalidConfiguration at construction, and is never iterated to its end.
C22_NonPositiveTotalRejected ==
    total <= 0 => raised = InvalidConfiguration /\ ~exhausted

---------------------------------------------------------------------------
(* The segments of the bar as a function: render_progress_bar given any     *)
(* budget from the minimum up and any 0 <= n <= total.                      *)

InitFill ==
    /\ SmartBarInit(1, TRUE, TRUE, NoSelector)
    /\ call = NoCall
    /\ script = <<>>
    /\ phase = "free"
    /\ IdleTracker
    /\ package = "smart_tqdm"
    /\ fault = NO_FAULT
    /\ renderer = TerminalRendererNew
    /\ last_write = "nothing"
    /\ IdleSmartTQDM
    /\ \E tot \in 1..MaxFillTotal, nn \in 0..MaxFillTotal,
          b \in MIN_BAR_WIDTH..MaxBudget :
            /\ nn <= tot
            /\ rendered = [outcome |-> PENDING, narrow_seen |-> FALSE,
                           n |-> nn, total |-> tot, available_width |-> b]

FillCall ==
    /\ rendered.outcome = PENDING
    /\ rendered' = [outcome |-> "drawn", narrow_seen |-> FALSE,
                    n |-> rendered.n, total |-> rendered.total,
                    available_width |-> rendered.available_width,
                    segments |-> bar_segments(rendered.n, rendered.total,
                                              rendered.available_width)]
    /\ UNCHANGED <<barVars, call, script, phase, mtVars, package, fault,
                   renderer, last_write, smartVars>>

NextFill == FillCall

SpecFill == InitFill /\ [][NextFill]_vars

\* the bar of a call has been drawn
Drawn == rendered.outcome = "drawn"

\* C26: for every budget B >= 10 and 0 <= n <= total, the filled segment has
\* floor(n / total * B) cells and the empty segment B minus that many; the
\* two sum to B, the filled length does not decrease with n, is 0 at n = 0
\* and is B only at n = total.
C26_FilledIsFloor ==
    Drawn =>
        LET nn == rendered.n
            tot == rendered.total
            b == rendered.available_width
            seg == rendered.segments
        IN  /\ seg.filled = (nn * b) \div tot
            /\ seg.empty = b - seg.filled
            /\ seg.filled + seg.empty = b
            /\ nn > 0 => filled_width(nn - 1, tot, b) <= seg.filled
            /\ nn = 0 => seg.filled = 0
            /\ seg.filled = b => nn = tot

\* the same without the floor: what the segments do satisfy
C26_SegmentsFillBudget ==
    Drawn =>
        LET nn == rendered.n
            tot == rendered.total
            b == rendered.available_width
            seg == rendered.segments
        IN  /\ seg.filled \in {(nn * b) \div tot, (nn * b) \div tot - 1}
            /\ seg.filled + seg.empty = b
            /\ nn > 0 => filled_width(nn - 1, tot, b) <= seg.filled
            /\ nn = 0 => seg.filled = 0
            /\ seg.filled = b => nn = tot

---------------------------------------------------------------------------
(* The description in the layout, under SpecRender. *)

\* C27: the budget is computed from the description as displayed: a
\* description longer than 20 characters yields the budget of any other
\* description longer than 20 characters, all else equal, and the displayed
\* description is never longer than 20 characters.
C27_BudgetFromDisplayedDescription ==
    LayoutReturned =>
        /\ rendered.layout.desc_display_len <= DESC_MAX
        /\ rendered.args.desc_len > DESC_MAX =>
            \A other \in (DESC_MAX + 1)..(DESC_MAX + 10) :
                calculate_layout([rendered.args EXCEPT !.desc_len = other],
                                 rendered.warned).available_width
                    = rendered.layout.available_width

\* the part of it that holds: the displayed description has at most 20
\* characters
C27_DisplayedDescriptionShort ==
    LayoutReturned => rendered.layout.desc_display_len <= DESC_MAX

---------------------------------------------------------------------------
(* The fallbacks of the policies, under SpecSel: the trends are -1, 0 or 1. *)

\* C30: with trends in {-1, 0, 1} no policy returns from its fallback: the
\* improving, stable and declining checks of the default policy cover every
\* pair of trends, and those of the accuracy and loss policies every trend.
C30_FallbacksUnreachable ==
    Returned =>
        /\ call.policy = DEFAULT_POLICY =>
            default_trend_site(call.accuracy_trend, call.loss_trend)
                /= "fallback"
        /\ call.policy = ACCURACY_POLICY =>
            metric_trend_site(call.accuracy_trend) /= "fallback"
        /\ call.policy = LOSS_POLICY =>
            metric_trend_site(call.loss_trend) /= "fallback"

\* the default policy has passed the new-best, improving and stable checks
\* and returned from the last one, the check for a decline
C30_Witness ==
    /\ Returned
    /\ call.policy = DEFAULT_POLICY
    /\ WellFormedCall
    /\ ~NewBestAccuracy
    /\ call.accuracy_trend = 0
    /\ call.loss_trend = -1
    /\ call.result = DECLINING

---------------------------------------------------------------------------
(* smart_tqdm.py: SmartTQDM, the tqdm bar it wraps and its animation       *)
(* thread.  A call is the sequence of the steps it has still to take; the  *)
(* animation threads take theirs in between.  A thread is named by its     *)
(* place in the sequence of the threads started, and 0 stands for None.    *)

MaxItems == 2        \* items of the iterable
MaxThreads == 2      \* animation threads a run starts
MaxCalls == 3        \* calls the caller makes
MaxFrame == 1        \* ticks of the animation counted

AttributeError == "AttributeError"

\* DefaultTheme(): its performance_emojis and the emoji its four
\* milestones share
DefaultTheme ==
    [t |-> "DefaultTheme",
     performance_emojis |->
         [improving |-> "fire", plateau |-> "turtle",
          unstable |-> "sweat_smile", new_best |-> "partying_face",
          slow |-> "snail", excellent |-> "star",
          warning |-> "warning", milestone |-> "target"],
     milestone_emoji |-> "target"]

\* Theme.get_emoji
get_emoji(theme, status) ==
    IF status \in DOMAIN theme.performance_emojis
    THEN theme.performance_emojis[status]
    ELSE "bar_chart"

\* Theme.get_milestone_emoji
get_milestone_emoji(theme) == theme.milestone_emoji

\* SmartTQDM._check_milestone, on progress = nn / tot
check_milestone(nn, tot) ==
    \E milestone \in {250, 500, 750, 900} :
        LET distance == nn * 1000 - milestone * tot
        IN  (IF distance < 0 THEN -distance ELSE distance) < 10 * tot

\* tqdm(iterable=...) over a list: the total is its length
tqdm_new(iterable) ==
    [total |-> Len(iterable), n |-> 0, closed |-> FALSE,
     animation_frame |-> 0, desc_emoji |-> "", postfix |-> {}]

\* "if self._tqdm": a tqdm bar of known total is true when the total is
\* positive (tqdm.__bool__), so the bar of an empty list is false
tqdm_bool(bar) == bar.total > 0

\* SmartTQDM.__init__ and _setup_tqdm, over a list
SmartTQDMNew(iterable, kwargs) ==
    [iterable |-> iterable,
     theme |-> IF "theme" \in DOMAIN kwargs THEN kwargs.theme
               ELSE DefaultTheme,
     metrics_tracker |-> MetricsTrackerNew(DEFAULT_MAX_HISTORY),
     current_metrics |-> EmptyDict,
     animation_frame |-> 0,
     animation_thread |-> 0,
     animation_running |-> FALSE,
     milestone_reached |-> FALSE,
     tqdm |-> tqdm_new(iterable)]

\* SmartTQDM.update_metrics: the instance afterwards, the emoji selected and
\* the exception the call ends with
SmartTQDM_update_metrics(s, m) ==
    LET recorded ==
            [s EXCEPT
              !.current_metrics = DictUpdate(@, m),
              !.metrics_tracker = MetricsTracker_update(@, m)]
        performance_status ==
            analyze(recorded.current_metrics, recorded.metrics_tracker.history)
        milestone ==
            /\ tqdm_bool(s.tqdm)
            /\ s.tqdm.n > 0
            /\ check_milestone(s.tqdm.n, s.tqdm.total)
        chosen == IF milestone THEN get_milestone_emoji(s.theme)
                 ELSE get_emoji(s.theme, performance_status)
    IN  IF s.theme = PyNone
        THEN [smart |-> recorded, emoji |-> "", raised |-> AttributeError]
        ELSE [smart |->
                [recorded EXCEPT
                  !.milestone_reached = @ \/ milestone,
                  !.tqdm = IF tqdm_bool(@)
                           THEN [@ EXCEPT !.desc_emoji = chosen,
                                          !.postfix = DOMAIN m]
                           ELSE @],
              emoji |-> chosen,
              raised |-> NoError]

\* variant of start_animation that does not look at the running flag
start_animation_unguarded ==
    <<"animation_running = True", "animation_thread.start()">>

\* SmartTQDM.start_animation, lines 259-267

start_animation ==
    <<"if animation_running: return", "animation_running = True",
      "animation_thread.start()">>

\* variant of stop_animation that leaves the running flag as it is
stop_animation_join_only == <<"animation_thread.join()">>

\* SmartTQDM.stop_animation, lines 269-273

stop_animation ==
    <<"animation_running = False", "animation_thread.join()">>

\* variant of close that closes the bar without stopping the animation
close_without_stop == <<"_tqdm.close()">>

\* SmartTQDM.close, and SmartTQDM.__exit__ of the same body

SmartTQDM_close == stop_animation \o <<"_tqdm.close()">>

\* the threads that have been started and have not ended
AliveThreads == {t \in DOMAIN threads : threads[t] /= "ended"}

\* the step the caller takes next
Do(step) == caller.todo /= <<>> /\ Head(caller.todo) = step

\* the steps of a call, as the caller begins it
steps_of(op) ==
    CASE op = "start_animation" -> start_animation
      [] op = "stop_animation" -> stop_animation
      [] op = "__enter__" ->
            IF tqdm_bool(smart.tqdm) THEN start_animation ELSE <<>>
      [] op \in {"__exit__", "close"} -> SmartTQDM_close
      [] op = "next" ->
            IF caller.gen = "suspended" THEN <<"next item">>
            ELSE <<"if self._tqdm", "next item">>
      [] op = "for" -> <<"if self._tqdm", "next item">>
      [] op = "set_postfix" -> <<"update_metrics">>
      [] op = "leave smart_progress" -> SmartTQDM_close \o <<"raise">>

CallNames ==
    {"start_animation", "stop_animation", "__enter__", "__exit__", "close",
     "next", "for", "set_postfix", "leave smart_progress"}

SmartMetricsInputs == {[loss |-> Num(500)], [acc |-> Num(700)]}

\* the caller begins a call; exc is what the body of the with-block of
\* smart_progress raised as it is left, and m what set_postfix is given
BeginCall ==
    /\ caller.todo = <<>>
    /\ caller.calls < MaxCalls
    /\ \E op \in CallNames, m \in SmartMetricsInputs,
          exc \in {NoError, ValueError} :
        LET fresh == op = "for" \/ (op = "next" /\ caller.gen /= "suspended")
        IN  /\ op = "leave smart_progress" => caller.block = "inside"
            /\ op /= "leave smart_progress" => exc = NoError
            /\ op /= "set_postfix" => m = caller.arg
            /\ op = "next" => caller.gen /= "done"
            /\ op \in {"start_animation", "__enter__", "next", "for"}
                    => Len(threads) < MaxThreads
            /\ caller' =
                [caller EXCEPT
                  !.todo = steps_of(op),
                  !.calls = @ + 1,
                  !.op = op,
                  !.arg = m,
                  !.exc = exc,
                  !.raised = NoError,
                  !.looping = (op = "for"),
                  !.gen = IF fresh THEN "created" ELSE @,
                  !.pos = IF fresh THEN 0 ELSE @,
                  !.yielded = IF fresh THEN <<>> ELSE @]
    /\ UNCHANGED <<smart, threads>>
    /\ UNCHANGED <<barVars, call, script, phase, mtVars, package, fault,
                   renderer, rendered, last_write>>

\* start_animation, a step of it
StartAnimationStep ==
    /\ \/ /\ Do("if animation_running: return")
          /\ caller' = [caller EXCEPT
                          !.todo = IF smart.animation_running
                                   THEN SubSeq(@, 4, Len(@)) ELSE Tail(@)]
          /\ UNCHANGED <<smart, threads>>
       \/ /\ Do("animation_running = True")
          /\ smart' = [smart EXCEPT !.animation_running = TRUE]
          /\ caller' = [caller EXCEPT !.todo = Tail(@)]
          /\ UNCHANGED threads
       \/ /\ Do("animation_thread.start()")
          /\ threads' = Append(threads, "while")
          /\ smart' = [smart EXCEPT !.animation_thread = Len(threads) + 1]
          /\ caller' = [caller EXCEPT !.todo = Tail(@)]
    /\ UNCHANGED <<barVars, call, script, phase, mtVars, package, fault,
                   renderer, rendered, last_write>>

\* stop_animation, a step of it: join returns once the thread has ended
StopAnimationStep ==
    /\ \/ /\ Do("animation_running = False")
          /\ smart' = [smart EXCEPT !.animation_running = FALSE]
       \/ /\ Do("animation_thread.join()")
          /\ smart.animation_thread /= 0
                => threads[smart.animation_thread] = "ended"
          /\ UNCHANGED smart
    /\ caller' = [caller EXCEPT !.todo = Tail(@)]
    /\ UNCHANGED threads
    /\ UNCHANGED <<barVars, call, script, phase, mtVars, package, fault,
                   renderer, rendered, last_write>>

\* close and __exit__, their last step: "if self._tqdm: self._tqdm.close()"
CloseStep ==
    /\ Do("_tqdm.close()")
    /\ smart' = [smart EXCEPT
                   !.tqdm.closed = @ \/ tqdm_bool(smart.tqdm)]
    /\ caller' = [caller EXCEPT !.todo = Tail(@)]
    /\ UNCHANGED threads
    /\ UNCHANGED <<barVars, call, script, phase, mtVars, package, fault,
                   renderer, rendered, last_write>>

\* the generator of __iter__, a step of it.  Over a true bar it starts the
\* animation and takes its items from the bar, which, until it is closed,
\* counts them, shows the count when it next prints and closes itself when
\* the items are out; stop_animation follows in the finally.  Over a false
\* bar it takes them from the iterable.  A for statement asks for the next
\* item at once.
IterStep ==
    /\ \/ /\ Do("if self._tqdm")
          /\ caller' = [caller EXCEPT
                          !.gen = "running",
                          !.todo = (IF tqdm_bool(smart.tqdm)
                                    THEN start_animation ELSE <<>>)
                                   \o Tail(@)]
          /\ UNCHANGED smart
       \/ /\ Do("next item")
          /\ caller.pos < Len(smart.iterable)
          /\ caller' = [caller EXCEPT
                          !.pos = @ + 1,
                          !.yielded = Append(@, smart.iterable[caller.pos + 1]),
                          !.gen = "suspended",
                          !.todo = IF caller.looping THEN @ ELSE Tail(@)]
          /\ \E shown \in {smart.tqdm.n, caller.pos} :
                smart' = [smart EXCEPT
                            !.tqdm.n = IF tqdm_bool(smart.tqdm)
                                          /\ ~smart.tqdm.closed
                                       THEN shown ELSE @]
       \/ /\ Do("next item")
          /\ caller.pos = Len(smart.iterable)
          /\ caller' = [caller EXCEPT
                          !.todo = (IF tqdm_bool(smart.tqdm)
                                    THEN stop_animation ELSE <<>>)
                                   \o <<"StopIteration">> \o Tail(@)]
          /\ smart' = [smart EXCEPT
                         !.tqdm.n = IF tqdm_bool(smart.tqdm)
                                       /\ ~smart.tqdm.closed
                                    THEN caller.pos ELSE @,
                         !.tqdm.closed = @ \/ tqdm_bool(smart.tqdm)]
       \/ /\ Do("StopIteration")
          /\ caller' = [caller EXCEPT
                          !.gen = "done",
                          !.looping = FALSE,
                          !.todo = Tail(@)]
          /\ UNCHANGED smart
    /\ UNCHANGED threads
    /\ UNCHANGED <<barVars, call, script, phase, mtVars, package, fault,
                   renderer, rendered, last_write>>

\* set_postfix(**m), which is update_metrics(m)
UpdateMetricsStep ==
    /\ Do("update_metrics")
    /\ LET did == SmartTQDM_update_metrics(smart, caller.arg)
       IN  /\ smart' = did.smart
           /\ caller' = [caller EXCEPT
                           !.selected = did.emoji,
                           !.raised = did.raised,
                           !.todo = Tail(@)]
    /\ UNCHANGED threads
    /\ UNCHANGED <<barVars, call, script, phase, mtVars, package, fault,
                   renderer, rendered, last_write>>

\* smart_progress, after the close of its finally: what the body raised
\* goes on to the caller
LeaveStep ==
    /\ Do("raise")
    /\ caller' = [caller EXCEPT
                    !.raised = caller.exc,
                    !.block = "left",
                    !.todo = Tail(@)]
    /\ UNCHANGED <<smart, threads>>
    /\ UNCHANGED <<barVars, call, script, phase, mtVars, package, fault,
                   renderer, rendered, last_write>>

\* _animation_loop, a step of thread t: the test of the while, or its body
\* and the sleep
AnimationLoop(t) ==
    /\ \/ /\ threads[t] = "while"
          /\ smart.animation_running => smart.animation_frame < MaxFrame
          /\ threads' = [threads EXCEPT
                           ![t] = IF smart.animation_running
                                  THEN "body" ELSE "ended"]
          /\ UNCHANGED smart
       \/ /\ threads[t] = "body"
          /\ threads' = [threads EXCEPT ![t] = "while"]
          /\ smart' = [smart EXCEPT
                         !.animation_frame = @ + 1,
                         !.tqdm.animation_frame =
                             IF tqdm_bool(smart.tqdm)
                             THEN smart.animation_frame + 1 ELSE @]
    /\ UNCHANGED caller
    /\ UNCHANGED <<barVars, call, script, phase, mtVars, package, fault,
                   renderer, rendered, last_write>>

\* a SmartTQDM over a list, with no theme given or with theme=None, made
\* by smart_progress, whose with-block the caller is in until it leaves it
InitSmart ==
    /\ SmartBarInit(1, TRUE, TRUE, NoSelector)
    /\ call = NoCall
    /\ script = <<>>
    /\ phase = "free"
    /\ IdleTracker
    /\ package = "smart_tqdm"
    /\ fault = NO_FAULT
    /\ renderer = TerminalRendererNew
    /\ rendered = NoRender
    /\ last_write = "nothing"
    /\ \E k \in 0..MaxItems,
          kwargs \in {[theme |-> PyNone], [animation |-> "WaveAnimation"]} :
            smart = SmartTQDMNew([i \in 1..k |-> i], kwargs)
    /\ threads = <<>>
    /\ caller = [todo |-> <<>>, calls |-> 0, op |-> "none",
                 arg |-> [loss |-> Num(500)], exc |-> NoError,
                 raised |-> NoError, selected |-> "", looping |-> FALSE,
                 gen |-> "none", pos |-> 0, yielded |-> <<>>,
                 block |-> "inside"]

CallerStep ==
    \/ StartAnimationStep
    \/ StopAnimationStep
    \/ CloseStep
    \/ IterStep
    \/ UpdateMetricsStep
    \/ LeaveStep

ThreadStep == \E t \in DOMAIN threads : AnimationLoop(t)

NextSmart == BeginCall \/ CallerStep \/ ThreadStep

SpecSmart == InitSmart /\ [][NextSmart]_vars

\* a call in progress goes on, and a thread that has been started runs
SpecSmartFair ==
    SpecSmart /\ WF_vars(CallerStep) /\ WF_vars(ThreadStep)

---------------------------------------------------------------------------
(* The animation thread, under SpecSmart: every sequence of the calls and  *)
(* every interleaving of their steps with those of the threads.            *)

\* C28: at most one animation thread of the instance is alive at any time,
\* and a start_animation that finds the animation running starts no thread:
\* it returns with no step of the start left to take.
C28_OneAnimationThread ==
    /\ [](Cardinality(AliveThreads) <= 1)
    /\ [][/\ Do("if animation_running: return")
           /\ smart.animation_running
           /\ caller' /= caller
            => /\ Len(threads') = Len(threads)
               /\ ~ \E i \in DOMAIN caller'.todo :
                        caller'.todo[i] = "animation_thread.start()"]_vars

\* a start_animation has returned at once, the thread of an earlier one
\* still running
C28_Witness ==
    /\ caller.op = "start_animation"
    /\ caller.todo = <<>>
    /\ caller.calls >= 2
    /\ Len(threads) = 1
    /\ AliveThreads = {1}
    /\ smart.animation_running

---------------------------------------------------------------------------
(* Under SpecSmartFair: a call in progress takes its next step and a       *)
(* started thread its own, as the scheduler and the end of each sleep of   *)
(* the loop see to.                                                        *)

\* C23: the generator of __iter__ yields the items of the iterable in the
\* iterable's order, each once, it is exhausted only when all of them have
\* been yielded, and a for statement over the instance comes to its end,
\* the join of the animation thread in the finally included.
C23_IterationYieldsAllAndEnds ==
    /\ [](caller.yielded = SubSeq(smart.iterable, 1, caller.pos))
    /\ [](caller.gen = "done" => caller.yielded = smart.iterable)
    /\ caller.looping ~> (caller.gen = "done" /\ caller.todo = <<>>)

\* a for statement over two items has ended, and its animation thread had
\* drawn a frame
C23_Witness ==
    /\ caller.op = "for"
    /\ caller.todo = <<>>
    /\ caller.gen = "done"
    /\ Len(caller.yielded) >= 2
    /\ threads = <<"ended">>
    /\ smart.animation_frame >= 1

\* close() or __exit__ has returned and no call has begun since
AfterClose ==
    /\ caller.todo = <<>>
    /\ caller.op \in {"close", "__exit__"}

\* C29: when close() or __exit__ comes to close the bar every animation
\* thread has ended, a thread whose running flag has been cleared ends, and
\* once close() or __exit__ has returned no frame is counted and none is
\* handed to the bar until another call begins.
C29_StoppedBeforeClosed ==
    /\ [](Do("_tqdm.close()") => AliveThreads = {})
    /\ (AliveThreads /= {} /\ ~smart.animation_running)
            ~> (AliveThreads = {})
    /\ [][AfterClose =>
            /\ smart'.animation_frame = smart.animation_frame
            /\ smart'.tqdm.animation_frame = smart.tqdm.animation_frame]_vars

\* close() has returned: it closed the bar after ending a thread that had
\* drawn a frame
C29_Witness ==
    /\ AfterClose
    /\ smart.tqdm.closed
    /\ threads = <<"ended">>
    /\ smart.tqdm.animation_frame >= 1

---------------------------------------------------------------------------
(* smart_progress and the theme, under SpecSmart.                          *)

\* the with-block of smart_progress has been left and no call has begun
\* since
LeftBlock ==
    /\ caller.todo = <<>>
    /\ caller.op = "leave smart_progress"

\* C24: when the with-block of smart_progress has been left, with or
\* without an exception, the animation is stopped, the underlying bar is
\* closed and what the body raised has reached the caller.
C24_BlockLeftBarClosed ==
    LeftBlock =>
        /\ ~smart.animation_running
        /\ AliveThreads = {}
        /\ smart.tqdm.closed
        /\ caller.raised = caller.exc

\* what there is of it: the animation is stopped and the exception goes on
\* whatever the iterable, and the bar of a list that has items is closed
C24_ClosedWhenItems ==
    LeftBlock =>
        /\ ~smart.animation_running
        /\ AliveThreads = {}
        /\ caller.raised = caller.exc
        /\ smart.iterable /= <<>> => smart.tqdm.closed

\* set_postfix has returned or raised and no call has begun since
AfterSetPostfix ==
    /\ caller.todo = <<>>
    /\ caller.op = "set_postfix"

\* C25: on an instance constructed with theme=None a set_postfix call ends
\* without an exception and has selected an emoji of the default theme.
C25_NoneThemeIsDefault ==
    AfterSetPostfix /\ smart.theme = PyNone =>
        /\ caller.raised = NoError
        /\ caller.selected \in
              {DefaultTheme.performance_emojis[status] :
                  status \in DOMAIN DefaultTheme.performance_emojis}

\* with no theme given the call does so
C25_DefaultThemeSelects ==
    AfterSetPostfix /\ smart.theme /= PyNone =>
        /\ caller.raised = NoError
        /\ caller.selected \in
              {DefaultTheme.performance_emojis[status] :
                  status \in DOMAIN DefaultTheme.performance_emojis}

=============================================================================
